---- MODULE Spec2Model ----
(***************************************************************************)
(* Model of the crawl-and-extract pipeline of web-scraping-pipeline:       *)
(*   src/src/link_extractor.py         directory A resolver (Europages)    *)
(*   src/src/yellowpages_extractor.py  directory B resolver (Yellowpages)  *)
(*   src/src/email_scraper.py          email harvester                     *)
(*   src/src/main.py                   orchestration                       *)
(* Strings the code inspects (URLs, hrefs) are sequences of tokens, so     *)
(* that substring tests, splits and joins are computed, not assumed.       *)
(***************************************************************************)
EXTENDS Integers, Sequences, FiniteSets, TLC

VARIABLES
    module,      \* which module's _request_text / extract_profiles is running
    cfg,         \* the configuration the run was started with
    pc,          \* control position of the caller (resolver / main)
    fpc,         \* control position inside _request_text
    url,         \* argument of the _request_text call in progress
    attempt,     \* loop variable of _request_text
    last_err,    \* last_err of _request_text
    ret,         \* what the _request_text call returned or raised
    flog,        \* history of the call in progress: GETs and backoff sleeps
    fetches,     \* history: number of _request_text calls issued so far
    sleeps,      \* history: number of politeness sleeps (_sleep) so far
    unpaced,     \* history: _request_text calls since the last politeness sleep
    logged,      \* messages handed to the logger, as a set of <<level, what, about>>
    calls,       \* history: finished _request_text calls, counted by kind and result
    visited,     \* history: the URLs fetched as profile pages, in order
    pages,       \* link_extractor: the paginated search URLs
    idx,         \* link_extractor: index of the search page being fetched
    profile_to_sample_product,  \* link_extractor: the dict, in insertion order
    seen,        \* history: distinct product links in the order the loop first met them
    prof_i,      \* loop variable i of the profile-visit loop (both resolvers)
    company_name, country, website,  \* link_extractor: locals of one visit
    visit,       \* history: what the current profile visit did so far
    profiles,    \* link_extractor: the records extract_profiles returns
    args,        \* main: the command line (and how the resolver was entered)
    page_num,    \* yellowpages_extractor: number of the search page being fetched
    profile_urls,    \* yellowpages_extractor: the set of discovered profile URLs
    named,       \* history: profile URLs whose fetched page had a company name
    all_businesses,  \* yellowpages_extractor: the records extract_profiles returns
    email_cfg,   \* email_scraper: crawl_paths and max_pages_per_site of the run
    row_i,       \* email_scraper: loop variable i of the loop over profiles
    tries,       \* email_scraper: the candidate pages of the current profile
    try_j,       \* email_scraper: loop variable j of the loop over candidates
    emails_found,    \* email_scraper: emails of the current profile so far
    results,     \* email_scraper: the records scrape_emails_for_profiles returns
    tried,       \* history: per candidate of the current profile, URL, result, emails
    found,       \* history: emails_found of every finished profile, in order
    raw_emails,  \* main: what the email stage handed back (raw_data of the cleaner)
    cleaned_emails,  \* main: what clean_and_validate_emails returned
    saved,       \* main: the files written so far, by name
    ignore_domains,  \* data_cleaner: the ignore set
    df,          \* data_cleaner: the rows of the DataFrame
    step_in      \* history: the rows that entered the last finished cleaning step

fvars == <<fpc, url, attempt, last_err, ret, flog>>
hvars == <<fetches, sleeps, unpaced>>
evars == <<email_cfg, row_i, tries, try_j, emails_found, results, tried, found>>
mvars == <<raw_emails, cleaned_emails, saved>>
svars == <<ignore_domains, df, step_in>>
bvars == <<args, page_num, profile_urls, named, all_businesses, evars, mvars, svars>>
avars == <<pages, idx, profile_to_sample_product, seen, prof_i, company_name,
           country, website, visit, profiles, bvars>>

\* ------------------------------------------------------------------ bounds
MaxRetries == 3
MaxBackoff == 3
MaxPages == 2
MaxCrawlRetries == 2

\* ------------------------------------------------------------ strings
\* A string the code takes apart is a sequence of tokens: "/", "-", ".",
\* "?", "//", single digits, a scheme ("https:") and letter runs are tokens.
Digits == {"0", "1", "2"}

\* `sub in s`
Contains(s, sub) ==
    \E k \in 0..(Len(s) - Len(sub)) : SubSeq(s, k + 1, k + Len(sub)) = sub

\* index of the first token of s that is in `stops`, Len(s)+1 if none
FirstIn(s, stops) ==
    IF \E k \in 1..Len(s) : s[k] \in stops
    THEN CHOOSE k \in 1..Len(s) :
            s[k] \in stops /\ \A j \in 1..(k - 1) : s[j] \notin stops
    ELSE Len(s) + 1

Whitespace == {" "}

\* str.strip()
RECURSIVE LStrip(_)
LStrip(s) == IF s # <<>> /\ Head(s) \in Whitespace THEN LStrip(Tail(s)) ELSE s
RECURSIVE RStrip(_)
RStrip(s) == IF s # <<>> /\ s[Len(s)] \in Whitespace
             THEN RStrip(SubSeq(s, 1, Len(s) - 1)) ELSE s
Strip(s) == RStrip(LStrip(s))

Schemes == {"https:", "http:"}

\* urllib.parse.urlparse: scheme, netloc, path, query (case is preserved)
urlparse(u) ==
    LET hasScheme == Len(u) > 0 /\ u[1] \in Schemes
        r1 == IF hasScheme THEN Tail(u) ELSE u
        hasNet == Len(r1) > 0 /\ r1[1] = "//"
        r2 == IF hasNet THEN Tail(r1) ELSE r1
        nEnd == IF hasNet THEN FirstIn(r2, {"/", "?"}) ELSE 1
        r3 == SubSeq(r2, nEnd, Len(r2))
        q == FirstIn(r3, {"?"})
    IN [scheme |-> IF hasScheme THEN u[1] ELSE "",
        netloc |-> SubSeq(r2, 1, nEnd - 1),
        path |-> SubSeq(r3, 1, q - 1),
        query |-> SubSeq(r3, q + 1, Len(r3))]

\* urljoin(base, ref) for the references the code passes: an absolute path
\* ("/...") or a protocol-relative reference ("//host/...")
urljoin(base, ref) ==
    LET b == urlparse(base) IN
    IF Len(ref) > 0 /\ ref[1] = "//" THEN <<b.scheme>> \o ref
    ELSE <<b.scheme, "//">> \o b.netloc \o ref

\* --------------------------------------------------------------- pages
\* base_url of the two directories, after rstrip("/")
BaseUrlA == <<"https:", "//", "www", ".", "europages", ".", "com">>
BaseUrlB == <<"https:", "//", "www", ".", "yellowpages", "-", "uae", ".", "com">>

CompanyMarker == <<"/", "en", "/", "company", "/">>
ProductsMarker == <<"/", "products", "/">>

\* hrefs found on directory A result pages
ProdA1 == CompanyMarker \o <<"a", "-", "1">> \o ProductsMarker \o <<"p">>
ProdA2 == CompanyMarker \o <<"a", "-", "1">> \o ProductsMarker \o <<"q">>
ProdB == CompanyMarker \o <<"b", "-", "2", "0">> \o ProductsMarker \o <<"p">>
ProdNoId == CompanyMarker \o <<"c">> \o ProductsMarker \o <<"p">>
CompanyOnly == CompanyMarker \o <<"b", "-", "2", "0">>

\* hrefs of website links found on profile and product pages
SiteExt == <<"https:", "//", "acme", ".", "com">>
SiteDir == <<"https:", "//", "www", ".", "europages", ".", "com", "/", "x">>
SiteDirUpper == <<"https:", "//", "WWW", ".", "EUROPAGES", ".", "COM">>
SiteRel == <<"//", "beta", ".", "org">>

\* hrefs found on directory B listing pages
ListA == <<"/", "a", "-", "1", "?", "ref">>
ListA2 == <<"/", "a", "-", "1">>
ListB == <<"/", "b", "-", "2", "0">>
ListAbout == <<"/", "about">>
ListUpper == <<"/", "C", "-", "1">>

\* A page is what the selectors of the configuration find in its HTML:
\*   cards    per product card, the hrefs of its anchors matching product_links
\*   loose    hrefs of all anchors matching product_links (used without cards)
\*   name     text of the company_name element ("" if there is none)
\*   cspan    second <span> of the country container (None if absent)
\*   csel     text of the `country` selector element
\*   button   href of the website_button element (<<>> if there is none)
\*   anchors  hrefs of a[href^='http'], in document order
\*   listing  hrefs of the profile_links anchors (directory B)
\*   city     text of the city element, None if absent (directory B)
\*   title    title attribute of the website button, None if absent (B)
Page(cards, loose, name, cspan, csel, button, anchors, listing, city, title) ==
    [cards |-> cards, loose |-> loose, name |-> name, cspan |-> cspan,
     csel |-> csel, button |-> button, anchors |-> anchors,
     listing |-> listing, city |-> city, title |-> title]

None == "None"

PageEmpty == Page(<<>>, <<>>, "", None, "", <<>>, <<>>, <<>>, None, None)
PageOne == Page(<< <<ProdA1>>, <<ProdB, <<>> >>, <<CompanyOnly>> >>, <<ProdA2>>,
                "Acme", "FR", "", <<>>, <<SiteDir, SiteExt>>,
                <<ListA, ListB>>, "Dubai", "acme.ae")
PageTwo == Page(<<>>, <<ProdA2, ProdNoId, ProdA1>>,
                "", None, "DE", SiteDir, <<SiteExt>>,
                <<ListAbout, ListA2, ListUpper>>, None, None)
PageThree == Page(<<>>, <<>>, "Beta", None, "", <<>>, <<SiteDir, SiteDirUpper>>,
                  <<ListB>>, None, "beta.ae")
PageFour == Page(<<>>, <<>>, "Acme", None, "", SiteRel, <<>>, <<>>, "Sharjah", None)

Bodies == {PageEmpty, PageOne, PageTwo, PageThree, PageFour}

\* An email address is a sequence of characters.
EmPlain == <<"a", "@", "b", ".", "d", "e">>
EmOther == <<"c", "@", "b", ".", "d", "e">>
EmIgnoredUpper == <<"a", "@", "X", ".", "I", "O">>
EmPngFile == <<"a", "@", "2", "x", ".", "p", "n", "g">>
EmRetina == <<"a", "@", "2", "x", "-", "b", ".", "d", "e">>
EmPngWord == <<"a", "@", "b", "p", "n", "g", ".", "d", "e">>
EmShortTld == <<"a", "@", "b", ".", "d">>
EmDigitTld == <<"a", "@", "b", ".", "d", "2">>
EmDashTld == <<"a", "@", "b", ".", "d", "-", "e">>
EmBlank == <<" ">>
EmNone == <<None>>

EmPlainUpper == <<"A", "@", "b", ".", "d", "e">>

\* A company page, as the email harvester reads it:
\*   text    the matches of EMAIL_RE in the HTML, in document order
\*   mailto  hrefs of the a[href^='mailto:'] anchors, in document order
MailPage(text, mailto) == [text |-> text, mailto |-> mailto]
MailNone == MailPage(<<>>, <<>>)
MailTwo == MailPage(<<EmOther, EmPlainUpper>>,
                    << <<"mailto:">> \o EmPlain \o <<"?", "s">> >>)
MailOne == MailPage(<<>>, << <<"mailto:", " ">> \o EmIgnoredUpper, <<"mailto:", "?">> >>)
MailBodies == {MailNone, MailTwo, MailOne}

\* ------------------------------------------------- link_extractor helpers
RECURSIVE Flatten(_)
Flatten(ss) == IF ss = <<>> THEN <<>> ELSE Head(ss) \o Flatten(Tail(ss))

StartsWithSlash(h) == Len(h) > 0 /\ h[1] \in {"/", "//"}

\* _extract_product_links_from_page: the set of absolute product URLs
extract_product_links_from_page(html, base_url) ==
    LET anchors == IF html.cards # <<>> THEN Flatten(html.cards) ELSE html.loose
        hrefs == [k \in 1..Len(anchors) |-> Strip(anchors[k])]
        abs(h) == IF StartsWithSlash(h) THEN urljoin(base_url, h) ELSE h
    IN {abs(hrefs[k]) : k \in {n \in 1..Len(hrefs) :
            /\ hrefs[n] # <<>>
            /\ Contains(abs(hrefs[n]), CompanyMarker)
            /\ Contains(abs(hrefs[n]), ProductsMarker)}}

\* Length of the match of [^/]+-\d+ at the start of a path segment, 0 if
\* the segment does not match: the greedy [^/]+ backs off to the last "-"
\* that a digit follows, and \d+ takes the whole run of digits after it.
SlugMatchLen(seg) ==
    LET dashes == {d \in 2..(Len(seg) - 1) : seg[d] = "-" /\ seg[d + 1] \in Digits}
    IN IF dashes = {} THEN 0
       ELSE LET d == CHOOSE x \in dashes : \A y \in dashes : y <= x
            IN CHOOSE e \in (d + 1)..Len(seg) :
                  /\ \A m \in (d + 1)..e : seg[m] \in Digits
                  /\ (e = Len(seg) \/ seg[e + 1] \notin Digits)

\* the path segment that starts at position k of path
SegmentAt(path, k) ==
    LET rest == SubSeq(path, k, Len(path))
    IN SubSeq(rest, 1, FirstIn(rest, {"/"}) - 1)

\* re.search(r"(/en/company/[^/]+-\d+)", path): the matched text, <<>> if none
CompanyPathMatch(path) ==
    LET hits == {k \in 0..(Len(path) - Len(CompanyMarker)) :
                   /\ SubSeq(path, k + 1, k + Len(CompanyMarker)) = CompanyMarker
                   /\ SlugMatchLen(SegmentAt(path, k + Len(CompanyMarker) + 1)) > 0}
    IN IF hits = {} THEN <<>>
       ELSE LET k == CHOOSE x \in hits : \A y \in hits : x <= y
                n == SlugMatchLen(SegmentAt(path, k + Len(CompanyMarker) + 1))
            IN SubSeq(path, k + 1, k + Len(CompanyMarker) + n)

\* _normalize_to_profile_url; <<>> stands for None
normalize_keep_tail(product_or_profile_url, base_url) ==
    IF product_or_profile_url = <<>> THEN <<>>
    ELSE LET p == urlparse(product_or_profile_url)
         IN IF CompanyPathMatch(p.path) = <<>> THEN <<>>
            ELSE urljoin(<<p.scheme, "//">> \o p.netloc \o <<"/">>, p.path)
normalize_to_profile_url(product_or_profile_url, base_url) ==
    IF product_or_profile_url = <<>> THEN <<>>
    ELSE LET p == urlparse(product_or_profile_url)
             profile_path == CompanyPathMatch(p.path)
         IN IF profile_path = <<>> THEN <<>>
            ELSE urljoin(<<p.scheme, "//">> \o p.netloc \o <<"/">>, profile_path)

DirectoryMark == <<"europages", ".">>

\* "europages." in urlparse(href).netloc
NetlocHasDirectoryMark(href) == Contains(urlparse(href).netloc, DirectoryMark)

\* _extract_website_from_profile_html; <<>> stands for None
extract_website_from_profile_html(html) ==
    IF html.button # <<>>
    THEN IF html.button[1] = "//" THEN <<"https:">> \o html.button ELSE html.button
    ELSE LET ext == {k \in 1..Len(html.anchors) :
                        ~NetlocHasDirectoryMark(html.anchors[k])}
         IN IF ext = {} THEN <<>>
            ELSE html.anchors[CHOOSE k \in ext : \A m \in ext : k <= m]

\* ------------------------------------------------------------- the remote
\* What one requests.get can produce: an exception (timeout, connection
\* error) or a response with a status and a body. The body of a response
\* that the attempt treats as a failure is never read.
\* 304 Not Modified stands for the final statuses outside 2xx, 4xx and 5xx
\* (with allow_redirects a 3xx is final when it cannot be followed); such a
\* response carries no body.
Statuses == {200, 304, 404, 503}

Modules == {"link_extractor", "yellowpages_extractor", "email_scraper"}

\* r.raise_for_status(): HTTPError for 4xx and 5xx
RaiseForStatus(status) == status >= 400 /\ status < 600

\* The try body of one attempt raises.
AttemptFails(m, o) ==
    \/ o.exc
    \/ /\ ~o.exc
       /\ IF m = "yellowpages_extractor"
          THEN RaiseForStatus(o.status)
          ELSE o.status >= 500

\* the pages the remote serves to the module
Served(m) == IF m = "email_scraper" THEN MailBodies ELSE Bodies

\* r.text of a response without a body
EmptyBody(m) == IF m = "email_scraper" THEN MailNone ELSE PageEmpty

Outcomes(m) ==
    {[exc |-> TRUE, status |-> 0, body |-> PageEmpty]}
    \cup {o \in [exc : {FALSE}, status : Statuses, body : Served(m) \cup {PageEmpty}] :
            IF AttemptFails(m, o) THEN o.body = PageEmpty
            ELSE IF o.status = 304 THEN o.body = EmptyBody(m)
            ELSE o.body \in Served(m)}

RECURSIVE Pow(_, _)
Pow(b, e) == IF e = 0 THEN 1 ELSE b * Pow(b, e - 1)

\* --------------------------------------------------------- _request_text
\* except Exception as e: last_err = e
NoErr == [attempt |-> 0, exc |-> FALSE, status |-> 0]
RecordErrKeepFirst(old, e) == IF old = NoErr THEN e ELSE old
RecordErr(old, e) == e

\* time.sleep(cfg.backoff_factor ** attempt)
BackoffDelayOffByOne(factor, n) == Pow(factor, n - 1)
BackoffDelay(factor, n) == Pow(factor, n)

\* range(1, cfg.retries + 1) still has an element after `attempt`
MoreAttempts(n, retries) == n < retries

GetEv(n, o) == [ev |-> "get", n |-> n, exc |-> o.exc, status |-> o.status,
                body |-> o.body, secs |-> 0]
SleepEv(n, secs) == [ev |-> "sleep", n |-> n, exc |-> FALSE, status |-> 0,
                     body |-> PageEmpty, secs |-> secs]

\* Entering _request_text(u, cfg, logger)
CallFetch(u) ==
    /\ fpc' = "get"
    /\ url' = u
    /\ attempt' = 1
    /\ last_err' = NoErr
    /\ ret' = None
    /\ flog' = <<>>
    /\ fetches' = fetches + 1
    /\ unpaced' = unpaced + 1
    /\ UNCHANGED sleeps

\* The caller has consumed the result: the call frame is gone.
FetchIdle ==
    /\ fpc' = "idle"
    /\ url' = <<>>
    /\ attempt' = 0
    /\ last_err' = NoErr
    /\ ret' = None
    /\ flog' = <<>>

\* One pass of the loop body: the GET, and on failure the except clause up
\* to (not including) the backoff sleep.
RequestAttempt ==
    /\ fpc = "get"
    /\ \E o \in Outcomes(module) :
         IF AttemptFails(module, o)
         THEN LET e == [attempt |-> attempt, exc |-> o.exc, status |-> o.status] IN
              /\ last_err' = RecordErr(last_err, e)
              /\ logged' = logged \cup {<<"warning", "GET failed">>}
              /\ flog' = Append(flog, GetEv(attempt, o))
              /\ fpc' = IF MoreAttempts(attempt, cfg.retries) THEN "backoff"
                        ELSE "exhausted"
              /\ UNCHANGED <<ret, attempt>>
         ELSE /\ ret' = [raised |-> FALSE, body |-> o.body, cause |-> None]
              /\ flog' = Append(flog, GetEv(attempt, o))
              /\ fpc' = "returned"
              /\ UNCHANGED <<last_err, attempt, logged>>
    /\ UNCHANGED <<module, cfg, pc, url, hvars, calls, visited, avars>>

\* time.sleep(cfg.backoff_factor ** attempt), then the next loop pass
BackoffSleep ==
    /\ fpc = "backoff"
    /\ flog' = Append(flog, SleepEv(attempt, BackoffDelay(cfg.backoff_factor, attempt)))
    /\ attempt' = attempt + 1
    /\ fpc' = "get"
    /\ UNCHANGED <<module, cfg, pc, url, last_err, ret, hvars, logged, calls, visited, avars>>

\* raise RuntimeError(f"Failed to fetch {url}: {last_err}")
RaiseExhausted ==
    /\ fpc = "exhausted"
    /\ ret' = [raised |-> TRUE, body |-> PageEmpty, cause |-> last_err]
    /\ fpc' = "raised"
    /\ UNCHANGED <<module, cfg, pc, url, attempt, last_err, flog, hvars, logged,
                   calls, visited, avars>>

\* ------------------------------------------- specification: one Fetcher call
CallKinds == {"search", "profile", "product", "page"}
NoCalls == [c \in CallKinds \X BOOLEAN |-> 0]
NoVisit == [profile_ok |-> FALSE, fallback |-> FALSE, fallback_ok |-> FALSE]

Cfg(retries, backoff_factor, max_pages, search_url, category) ==
    [retries |-> retries, backoff_factor |-> backoff_factor,
     max_pages |-> max_pages, search_url |-> search_url, category |-> category]

\* the email stage has not been entered
NoEmailCfg == [crawl_paths |-> <<>>, max_pages_per_site |-> 0, valid |-> TRUE]
InitHarvesterIdle ==
    /\ email_cfg = NoEmailCfg /\ row_i = 0 /\ tries = <<>> /\ try_j = 0
    /\ emails_found = {} /\ results = <<>> /\ tried = <<>> /\ found = <<>>

\* main has written no file and holds no email rows
NoFiles == [profiles |-> <<>>, links |-> <<>>, emails |-> <<>>]
InitMainIdle == raw_emails = <<>> /\ cleaned_emails = <<>> /\ saved = NoFiles

\* clean_and_validate_emails has not been called
InitCleanerIdle == ignore_domains = {} /\ df = <<>> /\ step_in = <<>>

\* nothing has been fetched, logged or collected yet
InitFetcherIdle ==
    /\ fpc = "idle" /\ url = <<>> /\ attempt = 0 /\ last_err = NoErr
    /\ ret = None /\ flog = <<>>
    /\ fetches = 0 /\ sleeps = 0 /\ unpaced = 0
    /\ logged = {} /\ calls = NoCalls /\ visited = <<>>

\* no resolver has run
InitResolversIdle ==
    /\ pages = <<>> /\ idx = 0 /\ profile_to_sample_product = <<>>
    /\ seen = <<>> /\ prof_i = 0
    /\ company_name = "" /\ country = "" /\ website = <<>>
    /\ visit = NoVisit
    /\ page_num = 0 /\ profile_urls = {} /\ named = <<>> /\ all_businesses = <<>>

InitIdle ==
    /\ InitFetcherIdle /\ InitResolversIdle /\ profiles = <<>>
    /\ InitHarvesterIdle /\ InitMainIdle /\ InitCleanerIdle

NoArgs == [entry |-> "call", sector_known |-> TRUE, category |-> ""]

InitFetch ==
    /\ module \in Modules
    /\ args = NoArgs
    /\ \E r \in 1..MaxRetries, b \in 2..MaxBackoff : cfg = Cfg(r, b, 1, <<>>, "")
    /\ pc = "call"
    /\ InitIdle

FetchUrls == {SiteExt, BaseUrlA}

\* a caller invokes _request_text once
FetchCall ==
    /\ pc = "call"
    /\ fpc = "idle"
    /\ \E u \in FetchUrls : CallFetch(u)
    /\ pc' = "wait"
    /\ UNCHANGED <<module, cfg, logged, calls, visited, avars>>

vars == <<module, cfg, pc, fpc, url, attempt, last_err, ret, flog,
          fetches, sleeps, unpaced, logged, calls, visited, pages, idx,
          profile_to_sample_product, seen, prof_i, company_name, country, website,
          visit, profiles, args, page_num, profile_urls, named, all_businesses,
          email_cfg, row_i, tries, try_j, emails_found, results, tried, found,
          raw_emails, cleaned_emails, saved, ignore_domains, df, step_in>>

NextFetch == FetchCall \/ RequestAttempt \/ BackoffSleep \/ RaiseExhausted

SpecFetch == InitFetch /\ [][NextFetch]_vars

\* --------------------------------- link_extractor.extract_profiles (A)
SearchUrlPlain == BaseUrlA \o <<"/", "en", "/", "search">>
SearchUrlQuery == SearchUrlPlain \o <<"?", "q", "=", "wine">>

\* _build_pages
build_pages_segment_last(search_url, max_pages) ==
    [n \in 1..max_pages |->
        IF n = 1 THEN search_url
        ELSE search_url \o <<"/", "page", "/", ToString(n)>>]
build_pages(search_url, max_pages) ==
    IF Contains(search_url, <<"?">>)
    THEN LET q == FirstIn(search_url, {"?"})
             prefix == SubSeq(search_url, 1, q - 1)
             qs == SubSeq(search_url, q + 1, Len(search_url))
         IN [n \in 1..max_pages |->
                IF n = 1 THEN search_url
                ELSE prefix \o <<"/", "page", "/", ToString(n), "?">> \o qs]
    ELSE [n \in 1..max_pages |->
                IF n = 1 THEN search_url
                ELSE search_url \o <<"/", "page", "/", ToString(n)>>]

\* _sleep(req_cfg.min_delay, req_cfg.max_delay)
PolitenessSleep ==
    /\ sleeps' = sleeps + 1
    /\ unpaced' = 0
    /\ UNCHANGED fetches

\* the history of finished calls counts them by kind and by result
Counted(kind) == <<kind, fpc = "returned">>
Count(kind, ok) == calls[<<kind, ok>>]
CountCall(kind) == [calls EXCEPT ![Counted(kind)] = @ + 1]

\* product links in the order the loop first met them
RECURSIVE SeenAfter(_, _)
SeenAfter(sq, ord) ==
    IF ord = <<>> THEN sq
    ELSE SeenAfter(IF \E n \in 1..Len(sq) : sq[n] = Head(ord) THEN sq
                   ELSE Append(sq, Head(ord)),
                   Tail(ord))

HasKey(map, key) == \E n \in 1..Len(map) : map[n].profile = key

\* profile_to_sample_product.setdefault(profile, p)
SetDefaultOverwrite(map, key, value) ==
    IF HasKey(map, key)
    THEN [n \in 1..Len(map) |->
            IF map[n].profile = key THEN [profile |-> key, product |-> value]
            ELSE map[n]]
    ELSE Append(map, [profile |-> key, product |-> value])
SetDefault(map, key, value) ==
    IF HasKey(map, key) THEN map
    ELSE Append(map, [profile |-> key, product |-> value])

\* for p in product_links: ... setdefault(profile, p), in the order `ord`
RECURSIVE MapLinks(_, _, _)
MapLinks(map, ord, base_url) ==
    IF ord = <<>> THEN map
    ELSE LET profile == normalize_to_profile_url(Head(ord), base_url)
         IN MapLinks(IF profile # <<>> THEN SetDefault(map, profile, Head(ord))
                     ELSE map,
                     Tail(ord), base_url)

\* the orders in which a for loop may walk a Python set
Orderings(S) ==
    {f \in [1..Cardinality(S) -> S] : \A a, b \in 1..Cardinality(S) :
                                         a # b => f[a] # f[b]}

InitA ==
    /\ module = "link_extractor"
    /\ args = NoArgs
    /\ \E m \in 1..MaxPages, u \in {SearchUrlPlain, SearchUrlQuery} :
          cfg = Cfg(MaxCrawlRetries, 2, m, u, "")
    /\ pc = "start"
    /\ InitIdle

\* extract_profiles up to the pagination loop (lines 186-207)
A_Start ==
    /\ pc = "start"
    /\ pages' = build_pages(cfg.search_url, cfg.max_pages)
    /\ idx' = 1
    /\ profile_to_sample_product' = <<>>
    /\ pc' = "paginate"
    /\ UNCHANGED <<module, cfg, fvars, hvars, logged, calls, visited, seen, prof_i,
                   company_name, country, website, visit, profiles, bvars>>

\* html = _request_text(url, req_cfg, logger) for the next page (210-212)
A_FetchPage ==
    /\ pc = "paginate" /\ idx <= Len(pages)
    /\ CallFetch(pages[idx])
    /\ pc' = "page_wait"
    /\ UNCHANGED <<module, cfg, logged, calls, visited, avars>>

\* a search page came back: extract, map, sleep (lines 213-222)
A_PageFetched ==
    /\ pc = "page_wait" /\ fpc = "returned"
    /\ LET product_links == extract_product_links_from_page(ret.body, BaseUrlA)
       IN /\ \E ord \in Orderings(product_links) :
               /\ profile_to_sample_product' =
                      MapLinks(profile_to_sample_product, ord, BaseUrlA)
               /\ seen' = SeenAfter(seen, ord)
          /\ logged' = IF product_links = {}
                       THEN logged \cup {<<"warning", "no product links">>}
                       ELSE logged
    /\ calls' = CountCall("search")
    /\ PolitenessSleep
    /\ idx' = idx + 1
    /\ pc' = "paginate"
    /\ FetchIdle
    /\ UNCHANGED <<module, cfg, visited, pages, prof_i, company_name, country,
                   website, visit, profiles, bvars>>

\* a search page exhausted its retries: line 212 is in no try block, the
\* RuntimeError leaves extract_profiles (and main, which does not catch it)
A_PageFailed ==
    /\ pc = "page_wait" /\ fpc = "raised"
    /\ calls' = CountCall("search")
    /\ pc' = "raised"
    /\ FetchIdle
    /\ UNCHANGED <<module, cfg, hvars, logged, visited, avars>>

\* the pagination loop is over (lines 224-227)
A_PaginationDone ==
    /\ pc = "paginate" /\ idx > Len(pages)
    /\ prof_i' = 1
    /\ profiles' = <<>>
    /\ pc' = "visit"
    /\ UNCHANGED <<module, cfg, fvars, hvars, logged, calls, visited, pages, idx,
                   profile_to_sample_product, seen, company_name, country,
                   website, visit, bvars>>

\* the next profile: reset the locals, fetch its page (lines 228-234)
A_FetchProfile ==
    /\ pc = "visit" /\ prof_i <= Len(profile_to_sample_product)
    /\ company_name' = "" /\ country' = "" /\ website' = <<>>
    /\ CallFetch(profile_to_sample_product[prof_i].profile)
    /\ visited' = Append(visited, profile_to_sample_product[prof_i].profile)
    /\ visit' = NoVisit
    /\ pc' = "profile_wait"
    /\ UNCHANGED <<module, cfg, logged, calls, pages, idx,
                   profile_to_sample_product, seen, prof_i, profiles, bvars>>

\* if not website and sample_product_url (line 245)
NeedsFallback(site, sample_product_url) ==
    site = <<>> /\ sample_product_url # <<>>

\* the profile fetch is over: fill the locals from the page, or log the
\* failure; then decide on the fallback (lines 235-245)
A_ProfileFetched ==
    /\ pc = "profile_wait" /\ fpc \in {"returned", "raised"}
    /\ LET ok == fpc = "returned"
           site == IF ok THEN extract_website_from_profile_html(ret.body) ELSE <<>>
           entry == profile_to_sample_product[prof_i]
       IN /\ company_name' = IF ok THEN ret.body.name ELSE ""
          /\ country' = IF ok THEN ret.body.cspan ELSE ""
          /\ website' = site
          /\ logged' = IF ok THEN logged
                       ELSE logged \cup {<<"debug", "failed profile">>}
          /\ visit' = [visit EXCEPT !.profile_ok = ok]
          /\ pc' = IF NeedsFallback(site, entry.product) THEN "fallback" ELSE "emit"
    /\ calls' = CountCall("profile")
    /\ FetchIdle
    /\ UNCHANGED <<module, cfg, hvars, visited, pages, idx,
                   profile_to_sample_product, seen, prof_i, profiles, bvars>>

\* html_prod = _request_text(sample_product_url, ...) (line 247)
A_FetchFallback ==
    /\ pc = "fallback"
    /\ CallFetch(profile_to_sample_product[prof_i].product)
    /\ pc' = "fallback_wait"
    /\ UNCHANGED <<module, cfg, logged, calls, visited, avars>>

\* the fallback fetch is over (lines 248-256)
A_FallbackFetched ==
    /\ pc = "fallback_wait" /\ fpc \in {"returned", "raised"}
    /\ LET ok == fpc = "returned" IN
          /\ website' = IF ok THEN extract_website_from_profile_html(ret.body)
                        ELSE website
          /\ company_name' = IF ok /\ company_name = "" THEN ret.body.name
                             ELSE company_name
          /\ country' = IF ok /\ country \in {"", None} THEN ret.body.csel
                        ELSE country
          /\ logged' = IF ok THEN logged
                       ELSE logged \cup {<<"debug", "failed fallback">>}
          /\ visit' = [visit EXCEPT !.fallback = TRUE, !.fallback_ok = ok]
    /\ calls' = CountCall("product")
    /\ pc' = "emit"
    /\ FetchIdle
    /\ UNCHANGED <<module, cfg, hvars, visited, pages, idx,
                   profile_to_sample_product, seen, prof_i, profiles, bvars>>

\* if website and "europages." in urlparse(website).netloc: website = ""
ClearDirectoryWebsite(site) ==
    IF site # <<>> /\ NetlocHasDirectoryMark(site) THEN <<>> ELSE site

\* profiles.append({...})
EmitRecordUnlessEmpty(records, rec) ==
    IF rec.company_name = "" /\ rec.website_url = <<>> THEN records
    ELSE Append(records, rec)
EmitRecord(records, rec) == Append(records, rec)

\* clear a directory-hosted website, append the record, sleep (258-272)
A_Emit ==
    /\ pc = "emit"
    /\ website' = ClearDirectoryWebsite(website)
    /\ profiles' = EmitRecord(profiles,
          [company_name |-> company_name, country |-> country,
           profile_url |-> profile_to_sample_product[prof_i].profile,
           website_url |-> ClearDirectoryWebsite(website)])
    /\ PolitenessSleep
    /\ prof_i' = prof_i + 1
    /\ pc' = "visit"
    /\ UNCHANGED <<module, cfg, fvars, logged, calls, visited, pages, idx,
                   profile_to_sample_product, seen, company_name, country, visit, bvars>>

\* return profiles (line 274)
A_Return ==
    /\ pc = "visit" /\ prof_i > Len(profile_to_sample_product)
    /\ pc' = "done"
    /\ UNCHANGED <<module, cfg, fvars, hvars, logged, calls, visited, avars>>

NextA ==
    \/ A_Start \/ A_FetchPage \/ A_PageFetched \/ A_PageFailed
    \/ A_PaginationDone \/ A_FetchProfile \/ A_ProfileFetched
    \/ A_FetchFallback \/ A_FallbackFetched \/ A_Emit \/ A_Return
    \/ RequestAttempt \/ BackoffSleep \/ RaiseExhausted

SpecA == InitA /\ [][NextA]_vars

\* ---------------------------- yellowpages_extractor.extract_profiles (B)
LowerWords == {"a", "b", "about", "ref", "uae", "cafes"}

\* the character class [a-z0-9-]
IsLowerAlnumDash(t) == t \in Digits \cup {"-"} \cup LowerWords

\* re.match(r'^/[a-z0-9-]+-\d+', href)
ListingHrefMatches(href) ==
    /\ Len(href) > 0 /\ href[1] = "/"
    /\ LET rest == Tail(href)
           stop == IF \E n \in 1..Len(rest) : ~IsLowerAlnumDash(rest[n])
                   THEN CHOOSE n \in 1..Len(rest) :
                           /\ ~IsLowerAlnumDash(rest[n])
                           /\ \A m \in 1..(n - 1) : IsLowerAlnumDash(rest[m])
                   ELSE Len(rest) + 1
       IN \E d \in 2..(stop - 2) : rest[d] = "-" /\ rest[d + 1] \in Digits

\* href.split("?")[0]
StripQuery(href) == SubSeq(href, 1, FirstIn(href, {"?"}) - 1)

\* the profile URLs one listing page adds (lines 152-162)
ListingProfileUrls(html, base_url) ==
    {urljoin(base_url, StripQuery(html.listing[n])) :
        n \in {m \in 1..Len(html.listing) :
                  html.listing[m] # <<>> /\ ListingHrefMatches(html.listing[m])}}

\* code point of the first character of a token
TokenRank(t) ==
    CASE t = "-" -> 45 [] t = "." -> 46 [] t \in {"/", "//"} -> 47
      [] t = "0" -> 48 [] t = "1" -> 49 [] t = "2" -> 50
      [] t = "?" -> 63 [] t = "@" -> 64 [] t = "C" -> 67
      [] t = "a" -> 97 [] t = "b" -> 98 [] t = "c" -> 99 [] t = "d" -> 100
      [] t = "e" -> 101 [] t = "i" -> 105 [] t = "o" -> 111 [] t = "x" -> 120
      [] OTHER -> 104

\* s < t for Python strings. Tokens of more than one character occur only
\* in the part the compared URLs share.
RECURSIVE StrLess(_, _)
StrLess(a, b) ==
    IF b = <<>> THEN FALSE
    ELSE IF a = <<>> THEN TRUE
    ELSE IF Head(a) = Head(b) THEN StrLess(Tail(a), Tail(b))
    ELSE TokenRank(Head(a)) < TokenRank(Head(b))

\* sorted(profile_urls)
Sorted(S) ==
    CHOOSE sq \in [1..Cardinality(S) -> S] :
        \A a, b \in 1..Cardinality(S) : a < b => StrLess(sq[a], sq[b])

\* _extract_data_from_profile_page: <<record>>, or <<>> for None
extract_data_keep_nameless(html, profile_url) ==
    << [company_name |-> html.name, country |-> html.city,
        website_url |-> html.title, profile_url |-> profile_url] >>
extract_data_from_profile_page(html, profile_url) ==
    IF html.name = "" THEN <<>>
    ELSE << [company_name |-> html.name, country |-> html.city,
             website_url |-> html.title, profile_url |-> profile_url] >>

\* f"{base_url}/uae/{category}?page={page_num}"
SearchPageUrl(base_url, category, n) ==
    base_url \o <<"/", "uae", "/", category, "?", "page", "=", ToString(n)>>

\* if not category (line 114)
CategoryMissingNever(category) == FALSE
CategoryMissing(category) == category = ""

\* `continue` after a failed search page (lines 142-144)
PageAfterFailureBreak(n, max_pages) == max_pages + 1
PageAfterFailure(n, max_pages) == n + 1

Categories == {"", "cafes"}

\* main is run for the yellowpages sector, or extract_profiles is called
\* with a configuration of its own
InitB ==
    /\ module = "yellowpages_extractor"
    /\ \/ /\ args \in [entry : {"main"}, sector_known : BOOLEAN, category : Categories]
          /\ \E m \in 1..MaxPages : cfg = Cfg(MaxCrawlRetries, 2, m, <<>>, "")
          /\ pc = "main"
       \/ /\ args = NoArgs
          /\ \E m \in 1..MaxPages, c \in Categories :
                cfg = Cfg(MaxCrawlRetries, 2, m, <<>>, c)
          /\ pc = "start"
    /\ InitIdle

\* main.py lines 42-61: the sector key and the category are checked before
\* the resolver is called
Main_Start ==
    /\ pc = "main"
    /\ IF ~args.sector_known
       THEN /\ logged' = logged \cup {<<"error", "sector not found">>}
            /\ pc' = "done"
            /\ UNCHANGED cfg
       ELSE IF args.category = ""
       THEN /\ logged' = logged \cup {<<"error", "category must be provided">>}
            /\ pc' = "done"
            /\ UNCHANGED cfg
       ELSE /\ cfg' = [cfg EXCEPT !.category = args.category]
            /\ pc' = "start"
            /\ UNCHANGED logged
    /\ UNCHANGED <<module, fvars, hvars, calls, visited, avars>>

\* extract_profiles up to the pagination loop (lines 109-133)
B_Start ==
    /\ pc = "start"
    /\ IF CategoryMissing(cfg.category)
       THEN /\ logged' = logged \cup {<<"error", "category not provided">>}
            /\ pc' = "done"
            /\ UNCHANGED <<page_num, profile_urls>>
       ELSE /\ page_num' = 1
            /\ profile_urls' = {}
            /\ pc' = "paginate"
            /\ UNCHANGED logged
    /\ UNCHANGED <<module, cfg, fvars, hvars, calls, visited, pages, idx,
                   profile_to_sample_product, seen, prof_i, company_name,
                   country, website, visit, profiles, args, named, all_businesses,
                   evars, mvars, svars>>

\* response_text = _request_text(page_url, req_cfg, logger) (lines 136-141)
B_FetchPage ==
    /\ pc = "paginate" /\ page_num <= cfg.max_pages
    /\ CallFetch(SearchPageUrl(BaseUrlB, cfg.category, page_num))
    /\ pc' = "page_wait"
    /\ UNCHANGED <<module, cfg, logged, calls, visited, avars>>

\* the search page came back: collect its profile URLs, sleep (146-165)
B_PageFetched ==
    /\ pc = "page_wait" /\ fpc = "returned"
    /\ profile_urls' = profile_urls \cup ListingProfileUrls(ret.body, BaseUrlB)
    /\ calls' = CountCall("page")
    /\ PolitenessSleep
    /\ page_num' = page_num + 1
    /\ pc' = "paginate"
    /\ FetchIdle
    /\ UNCHANGED <<module, cfg, logged, visited, pages, idx,
                   profile_to_sample_product, seen, prof_i, company_name,
                   country, website, visit, profiles, args, named, all_businesses,
                   evars, mvars, svars>>

\* except RuntimeError as e: logger.error(e); continue (lines 142-144)
B_PageFailed ==
    /\ pc = "page_wait" /\ fpc = "raised"
    /\ logged' = logged \cup {<<"error", "search page failed">>}
    /\ calls' = CountCall("page")
    /\ page_num' = PageAfterFailure(page_num, cfg.max_pages)
    /\ pc' = "paginate"
    /\ FetchIdle
    /\ UNCHANGED <<module, cfg, hvars, visited, pages, idx,
                   profile_to_sample_product, seen, prof_i, company_name,
                   country, website, visit, profiles, args, profile_urls,
                   named, all_businesses,
                   evars, mvars, svars>>

\* after the loop: return [] without profiles, else start the visits
\* (lines 167-171)
B_PaginationDone ==
    /\ pc = "paginate" /\ page_num > cfg.max_pages
    /\ IF profile_urls = {}
       THEN pc' = "done" /\ UNCHANGED <<prof_i, all_businesses>>
       ELSE pc' = "visit" /\ prof_i' = 1 /\ all_businesses' = <<>>
    /\ UNCHANGED <<module, cfg, fvars, hvars, logged, calls, visited, pages, idx,
                   profile_to_sample_product, seen, company_name,
                   country, website, visit, profiles, args, page_num,
                   profile_urls, named,
                   evars, mvars, svars>>

\* profile_html = _request_text(profile_url, ...) (lines 174-178)
B_FetchProfile ==
    /\ pc = "visit" /\ prof_i <= Cardinality(profile_urls)
    /\ CallFetch(Sorted(profile_urls)[prof_i])
    /\ visited' = Append(visited, Sorted(profile_urls)[prof_i])
    /\ pc' = "profile_wait"
    /\ UNCHANGED <<module, cfg, logged, calls, avars>>

\* the profile fetch is over: keep the record if there is one, log a
\* failure; sleep (lines 179-185)
B_ProfileFetched ==
    /\ pc = "profile_wait" /\ fpc \in {"returned", "raised"}
    /\ LET ok == fpc = "returned"
           company_data == IF ok THEN extract_data_from_profile_page(ret.body, url)
                           ELSE <<>>
       IN /\ all_businesses' = all_businesses \o company_data
          /\ logged' =
               IF ~ok THEN logged \cup {<<"error", "failed to scrape profile page">>}
               ELSE IF ret.body.name = ""
               THEN logged \cup {<<"warning", "could not extract company name">>}
               ELSE logged
          /\ named' = IF ok /\ ret.body.name # "" THEN Append(named, url) ELSE named
    /\ calls' = CountCall("profile")
    /\ PolitenessSleep
    /\ prof_i' = prof_i + 1
    /\ pc' = "visit"
    /\ FetchIdle
    /\ UNCHANGED <<module, cfg, visited, pages, idx, profile_to_sample_product,
                   seen, company_name, country, website, visit, profiles, args,
                   page_num, profile_urls,
                   evars, mvars, svars>>

\* return all_businesses (line 187)
B_Return ==
    /\ pc = "visit" /\ prof_i > Cardinality(profile_urls)
    /\ pc' = "done"
    /\ UNCHANGED <<module, cfg, fvars, hvars, logged, calls, visited, avars>>

NextB ==
    \/ Main_Start \/ B_Start \/ B_FetchPage \/ B_PageFetched \/ B_PageFailed
    \/ B_PaginationDone \/ B_FetchProfile \/ B_ProfileFetched \/ B_Return
    \/ RequestAttempt \/ BackoffSleep \/ RaiseExhausted

SpecB == InitB /\ [][NextB]_vars

\* ------------------------------- data_cleaner.clean_and_validate_emails
\* The rows handed to the cleaner carry name, country and email.
MaxRows == 3

RawEmails == {EmPlain, EmOther, EmIgnoredUpper, EmPngFile, EmRetina, EmPngWord,
              EmShortTld, EmDigitTld, EmDashTld, EmBlank, EmNone}

IgnoredDomain == <<"x", ".", "i", "o">>
IgnoreSets == {{}, {IgnoredDomain}}

Countries == <<"FR", "DE">>

\* row n of a raw_data list: the name tells the rows apart
RawRow(n, e) == [name |-> n, country |-> Countries[(n % 2) + 1], email |-> e]
RawData == UNION {{[n \in 1..len |-> RawRow(n, es[n])] : es \in [1..len -> RawEmails]} :
                     len \in 0..MaxRows}

\* str.lower(), character by character
LowerChar(c) ==
    CASE c = "X" -> "x" [] c = "I" -> "i" [] c = "O" -> "o" [] c = "A" -> "a"
      [] OTHER -> c
Lower(s) == [k \in 1..Len(s) |-> LowerChar(s[k])]

Alphabetic == {"a", "b", "c", "d", "e", "g", "i", "n", "o", "p", "x", "A", "I", "O", "X"}

\* the text after the last occurrence of the character c (all of s if none)
AfterLast(s, c) ==
    LET at == {k \in 1..Len(s) : s[k] = c}
    IN IF at = {} THEN s
       ELSE SubSeq(s, (CHOOSE k \in at : \A m \in at : m <= k) + 1, Len(s))

\* df['email'].str.split('@').str[-1].str.lower()
DomainOfNoLower(email) == AfterLast(email, "@")
DomainOf(email) == Lower(AfterLast(email, "@"))

\* df['domain'].str.rsplit('.', n=1).str[-1].str.lower()
TldOf(domain) == Lower(AfterLast(domain, "."))

\* image_patterns; str.contains takes '|'.join(image_patterns) as a regular
\* expression, in which "." stands for any character but a newline
ImagePatterns ==
    {<<".", "w", "e", "b", "p">>, <<".", "j", "p", "g">>,
     <<".", "j", "p", "e", "g">>, <<".", "p", "n", "g">>,
     <<".", "g", "i", "f">>, <<".", "s", "v", "g">>, <<"@", "2", "x", "-">>}

RegexCharMatches(p, c) == IF p = "." THEN c # "\n" ELSE p = c

\* re.search(pat, s) finds a match
RegexFinds(pat, s) ==
    \E k \in 0..(Len(s) - Len(pat)) :
        \A j \in 1..Len(pat) : RegexCharMatches(pat[j], s[k + j])

\* df['email'].str.contains('|'.join(image_patterns))
MatchesImagePattern(email) == \E pat \in ImagePatterns : RegexFinds(pat, email)

\* lines 12-13: dropna(subset=['email']), then str.strip() != ''
DropBlank(rows) == SelectSeq(rows, LAMBDA r : r.email # EmNone /\ Strip(r.email) # <<>>)

\* lines 16-17
FilterIgnored(rows, ignore) == SelectSeq(rows, LAMBDA r : DomainOf(r.email) \notin ignore)

\* lines 20-21
FilterImages(rows) == SelectSeq(rows, LAMBDA r : ~MatchesImagePattern(r.email))

\* lines 24-27: len >= 2, no digit, isalpha
TldAccepted(tld) ==
    /\ Len(tld) >= 2
    /\ \A k \in 1..Len(tld) : tld[k] \notin {"0", "1", "2"}
    /\ \A k \in 1..Len(tld) : tld[k] \in Alphabetic
FilterTld(rows) == SelectSeq(rows, LAMBDA r : TldAccepted(TldOf(DomainOf(r.email))))

\* line 30: drop_duplicates(subset=['email'], keep='first')
DropDuplicatesKeepLast(rows) ==
    LET keep == {k \in 1..Len(rows) :
                    \A m \in (k + 1)..Len(rows) : rows[m].email # rows[k].email}
        pick[k \in 0..Len(rows)] ==
            IF k = 0 THEN <<>>
            ELSE IF k \in keep THEN Append(pick[k - 1], rows[k]) ELSE pick[k - 1]
    IN pick[Len(rows)]
DropDuplicates(rows) ==
    LET keep == {k \in 1..Len(rows) :
                    \A m \in 1..(k - 1) : rows[m].email # rows[k].email}
        pick[k \in 0..Len(rows)] ==
            IF k = 0 THEN <<>>
            ELSE IF k \in keep THEN Append(pick[k - 1], rows[k]) ELSE pick[k - 1]
    IN pick[Len(rows)]

\* line 36: rename(columns={"name": "company_name"}); a frame that has no
\* name column is left as it is
CompanyName(r) == IF "name" \in DOMAIN r THEN r.name ELSE r.company_name

\* lines 36-39: rename name to company_name, keep three columns
FormatReversed(rows) ==
    [k \in 1..Len(rows) |->
        [company_name |-> CompanyName(rows[Len(rows) + 1 - k]),
         country |-> rows[Len(rows) + 1 - k].country,
         email |-> rows[Len(rows) + 1 - k].email]]
Format(rows) ==
    [k \in 1..Len(rows) |->
        [company_name |-> CompanyName(rows[k]), country |-> rows[k].country,
         email |-> rows[k].email]]

\* the whole function, as main calls it
clean_and_validate_emails(raw_data, ignore) ==
    IF raw_data = <<>> THEN <<>>
    ELSE Format(DropDuplicates(FilterTld(FilterImages(
            FilterIgnored(DropBlank(raw_data), ignore)))))

\* variables the resolvers own
rvars == <<pages, idx, profile_to_sample_product, seen, prof_i, company_name,
           country, website, visit, args, page_num, profile_urls, named,
           all_businesses>>

InitS ==
    /\ module = "data_cleaner"
    /\ cfg = Cfg(1, 2, 1, <<>>, "")
    /\ pc = "clean"
    /\ InitFetcherIdle /\ InitResolversIdle /\ InitHarvesterIdle
    /\ profiles = <<>> /\ args = NoArgs
    /\ raw_emails \in RawData /\ cleaned_emails = <<>> /\ saved = NoFiles
    /\ ignore_domains \in IgnoreSets /\ df = <<>> /\ step_in = <<>>

\* one statement group of the function: the rows go in, `out` comes out
CleanStep(here, next, out) ==
    /\ pc = here
    /\ step_in' = df
    /\ df' = out
    /\ pc' = next
    /\ UNCHANGED <<module, cfg, fvars, hvars, logged, calls, visited, rvars,
                   profiles, evars, raw_emails, cleaned_emails, saved,
                   ignore_domains>>

\* lines 6-9
S_Enter ==
    /\ pc = "clean"
    /\ IF raw_emails = <<>>
       THEN pc' = "done" /\ UNCHANGED df
       ELSE pc' = "s_blank" /\ df' = raw_emails
    /\ UNCHANGED <<module, cfg, fvars, hvars, logged, calls, visited, rvars,
                   profiles, evars, raw_emails, cleaned_emails, saved,
                   ignore_domains, step_in>>

S_DropBlank == CleanStep("s_blank", "s_domain", DropBlank(df))
S_FilterIgnored == CleanStep("s_domain", "s_image", FilterIgnored(df, ignore_domains))
S_FilterImages == CleanStep("s_image", "s_tld", FilterImages(df))
S_FilterTld == CleanStep("s_tld", "s_dedup", FilterTld(df))
S_DropDuplicates == CleanStep("s_dedup", "s_format", DropDuplicates(df))

\* lines 36-39
S_Return ==
    /\ pc = "s_format"
    /\ cleaned_emails' = Format(df)
    /\ pc' = "done"
    /\ UNCHANGED <<module, cfg, fvars, hvars, logged, calls, visited, rvars,
                   profiles, evars, raw_emails, saved, svars>>

NextS ==
    \/ S_Enter \/ S_DropBlank \/ S_FilterIgnored \/ S_FilterImages
    \/ S_FilterTld \/ S_DropDuplicates \/ S_Return

SpecS == InitS /\ [][NextS]_vars

\* -------------------------- email_scraper.scrape_emails_for_profiles
MaxProfiles == 2
MaxSitePages == 2

\* _normalize_url: strip, and "https://" in front of a URL without scheme
normalize_url(u) ==
    LET s == Strip(u)
    IN IF s = <<>> THEN <<>>
       ELSE IF urlparse(s).scheme = "" THEN <<"https:", "//">> \o s
       ELSE s

\* re.search(r"mailto:([^?]+)", href, re.I): group 1, <<>> if no match
MailtoAddress(href) ==
    IF href # <<>> /\ href[1] = "mailto:"
    THEN SubSeq(href, 2, FirstIn(href, {"?"}) - 1)
    ELSE <<>>

\* _extract_emails_from_html
extract_emails_text_only(html) ==
    {Lower(Strip(html.text[k])) : k \in 1..Len(html.text)}
extract_emails_from_html(html) ==
    LET plain == {html.text[k] : k \in 1..Len(html.text)}
        linked == {MailtoAddress(html.mailto[k]) : k \in 1..Len(html.mailto)} \ {<<>>}
    IN {Lower(Strip(e)) : e \in plain} \cup {Lower(Strip(Strip(e))) : e \in linked}

\* configured crawl paths
PathRoot == <<"/">>
PathContact == <<"/", "contact">>
PathAbout == <<"/", "about">>
CrawlPathLists == {<<>>, <<PathRoot, PathContact, PathAbout>>}

\* rows a resolver hands over: a name to strip, a missing country (<<>>
\* stands for None), a website without scheme and with a path, no website
RowAcme == [company_name |-> <<" ", "Acme">>, country |-> <<"FR">>,
            profile_url |-> BaseUrlB \o ListA2,
            website_url |-> <<"acme", ".", "com", "/", "shop", " ">>]
RowBeta == [company_name |-> <<"Beta">>, country |-> <<>>,
            profile_url |-> BaseUrlB \o ListB, website_url |-> <<>>]
RowGamma == [company_name |-> <<"Gamma">>, country |-> <<"DE">>,
             profile_url |-> BaseUrlA \o CompanyOnly, website_url |-> SiteExt]
RowCycle == <<RowAcme, RowBeta, RowGamma, RowAcme, RowBeta, RowGamma>>

\* the profile lists: up to MaxProfiles consecutive rows of the cycle
ProfileLists ==
    {SubSeq(RowCycle, from, from + len - 1) : from \in 1..3, len \in 0..MaxProfiles}

\* lines 159-170: the candidate pages of one row, before truncation
BuildTries(row, crawl_paths, max_pages_per_site) ==
    IF row.website_url # <<>>
    THEN LET normalized_website == normalize_url(row.website_url)
             paths == SubSeq(crawl_paths, 1,
                             IF max_pages_per_site < Len(crawl_paths)
                             THEN max_pages_per_site ELSE Len(crawl_paths))
         IN <<normalized_website>> \o
            [k \in 1..Len(paths) |-> urljoin(normalized_website, paths[k])]
    ELSE <<normalize_url(row.profile_url)>>

\* tries[:max_pages_per_site] (line 172)
CandidatesUntruncated(all, max_pages_per_site) == all
Candidates(all, max_pages_per_site) ==
    SubSeq(all, 1, IF max_pages_per_site < Len(all) THEN max_pages_per_site
                   ELSE Len(all))

\* emails_found |= _extract_emails_from_html(html) (line 175)
\* emails_found: Set[str] = set() (line 157), inside the loop over the rows
FreshEmailsCarried(prev) == prev
FreshEmails(prev) == {}

AddEmailsReplacing(old, new) == new
AddEmails(old, new) == old \cup new

\* _sleep(...) of line 178 is outside the try statement
SleepsAfterSuccessOnly(ok) == ok
SleepsAfter(ok) == TRUE

\* sorted(emails_found) (line 180)
EmailOrderReversed(S) ==
    LET sq == Sorted(S) IN [k \in 1..Len(sq) |-> sq[Len(sq) + 1 - k]]
EmailOrder(S) == Sorted(S)

\* lines 180-181: the rows of one profile
RowsFor(name, ctry, emails) ==
    LET sq == EmailOrder(emails)
    IN [k \in 1..Len(sq) |-> [name |-> name, country |-> ctry, email |-> sq[k]]]

\* if args.skip_emails (main.py line 96)
SkipEmailsNever(a) == FALSE
SkipEmails(a) == a.skip_emails

\* main.py lines 68-79: the rows of profiles_<slug>.csv
ProfileRows(rows) == rows

\* main.py lines 83-86: sorted(set(_normalize_url(website_url) ...))
PersonalSites(rows) ==
    Sorted({normalize_url(rows[k].website_url) :
               k \in {n \in 1..Len(rows) : rows[n].website_url # <<>>}})

\* main has the profiles of the resolver (line 65); the email section of
\* the configuration may hold a max_pages_per_site that int() rejects
InitE ==
    /\ module = "email_scraper"
    /\ args \in [entry : {"main"}, sector_known : {TRUE}, category : {""},
                 skip_emails : BOOLEAN]
    /\ cfg = Cfg(MaxCrawlRetries, 2, 1, <<>>, "")
    /\ pc = "m_profiles"
    /\ InitFetcherIdle /\ InitResolversIdle
    /\ profiles \in ProfileLists
    /\ email_cfg \in [crawl_paths : CrawlPathLists,
                      max_pages_per_site : 1..MaxSitePages, valid : BOOLEAN]
    /\ row_i = 0 /\ tries = <<>> /\ try_j = 0
    /\ emails_found = {} /\ results = <<>> /\ tried = <<>> /\ found = <<>>
    /\ InitMainIdle
    /\ ignore_domains \in IgnoreSets /\ df = <<>> /\ step_in = <<>>

\* main.py lines 65-80
M_SaveProfiles ==
    /\ pc = "m_profiles"
    /\ saved' = [saved EXCEPT !.profiles = <<ProfileRows(profiles)>>]
    /\ pc' = "m_links"
    /\ UNCHANGED <<module, cfg, fvars, hvars, logged, calls, visited, rvars,
                   profiles, evars, raw_emails, cleaned_emails, svars>>

\* main.py lines 83-94
M_SaveLinks ==
    /\ pc = "m_links"
    /\ saved' = [saved EXCEPT !.links = <<PersonalSites(profiles)>>]
    /\ pc' = "m_skip"
    /\ UNCHANGED <<module, cfg, fvars, hvars, logged, calls, visited, rvars,
                   profiles, evars, raw_emails, cleaned_emails, svars>>

\* main.py lines 96-117: stop here with --skip-emails, else call the
\* email stage
M_SkipCheck ==
    /\ pc = "m_skip"
    /\ IF SkipEmails(args)
       THEN /\ logged' = logged \cup {<<"info", "skip-emails set">>}
            /\ pc' = "done"
       ELSE /\ pc' = "harvest"
            /\ UNCHANGED logged
    /\ UNCHANGED <<module, cfg, fvars, hvars, calls, visited, rvars,
                   profiles, evars, mvars, svars>>

\* scrape_emails_for_profiles lines 135-147: int(...) of a value that is
\* no number raises
E_Start ==
    /\ pc = "harvest"
    /\ IF email_cfg.valid
       THEN results' = <<>> /\ row_i' = 1 /\ pc' = "row"
       ELSE pc' = "harvest_raised" /\ UNCHANGED <<results, row_i>>
    /\ UNCHANGED <<module, cfg, fvars, hvars, logged, calls, visited, rvars,
                   profiles, email_cfg, tries, try_j, emails_found, tried, found,
                   mvars, svars>>

\* lines 149-170: the next row and its candidate pages
E_BuildTries ==
    /\ pc = "row" /\ row_i <= Len(profiles)
    /\ emails_found' = FreshEmails(emails_found)
    /\ tries' = BuildTries(profiles[row_i], email_cfg.crawl_paths,
                           email_cfg.max_pages_per_site)
    /\ try_j' = 1
    /\ tried' = <<>>
    /\ logged' = logged \cup {<<"info", "scraping emails">>}
    /\ pc' = "candidates"
    /\ UNCHANGED <<module, cfg, fvars, hvars, calls, visited, rvars, profiles,
                   email_cfg, row_i, results, found, mvars, svars>>

\* lines 172-174; _request_text normalizes the URL it is given (line 80)
E_Fetch ==
    /\ pc = "candidates"
    /\ try_j <= Len(Candidates(tries, email_cfg.max_pages_per_site))
    /\ CallFetch(normalize_url(tries[try_j]))
    /\ pc' = "cand_wait"
    /\ UNCHANGED <<module, cfg, logged, calls, visited, avars>>

\* lines 175-178: the emails of the page, or the debug message; the sleep
E_Fetched ==
    /\ pc = "cand_wait" /\ fpc \in {"returned", "raised"}
    /\ LET ok == fpc = "returned"
           got == IF ok THEN extract_emails_from_html(ret.body) ELSE {}
       IN /\ emails_found' = IF ok THEN AddEmails(emails_found, got)
                             ELSE emails_found
          /\ logged' = IF ok THEN logged
                       ELSE logged \cup {<<"debug", "failed fetch">>}
          /\ tried' = Append(tried, [url |-> tries[try_j], ok |-> ok, emails |-> got])
          /\ IF SleepsAfter(ok) THEN PolitenessSleep ELSE UNCHANGED hvars
    /\ try_j' = try_j + 1
    /\ pc' = "candidates"
    /\ FetchIdle
    /\ UNCHANGED <<module, cfg, calls, visited, rvars, profiles, email_cfg,
                   row_i, tries, results, found, mvars, svars>>

\* lines 180-184: the rows of this profile, in sorted order of the emails
E_EmitRow ==
    /\ pc = "candidates"
    /\ try_j > Len(Candidates(tries, email_cfg.max_pages_per_site))
    /\ results' = results \o RowsFor(Strip(profiles[row_i].company_name),
                                     Strip(profiles[row_i].country), emails_found)
    /\ found' = Append(found, emails_found)
    /\ logged' = IF emails_found = {}
                 THEN logged \cup {<<"info", "no emails found">>}
                 ELSE logged
    /\ row_i' = row_i + 1
    /\ pc' = "row"
    /\ UNCHANGED <<module, cfg, fvars, hvars, calls, visited, rvars, profiles,
                   email_cfg, tries, try_j, emails_found, tried, mvars, svars>>

\* line 186, main.py line 117
E_Return ==
    /\ pc = "row" /\ row_i > Len(profiles)
    /\ raw_emails' = results
    /\ pc' = "m_clean"
    /\ UNCHANGED <<module, cfg, fvars, hvars, logged, calls, visited, rvars,
                   profiles, evars, cleaned_emails, saved, svars>>

\* main.py lines 118-120
M_HarvestRaised ==
    /\ pc = "harvest_raised"
    /\ logged' = logged \cup {<<"error", "email scraping failed">>}
    /\ raw_emails' = <<>>
    /\ pc' = "m_clean"
    /\ UNCHANGED <<module, cfg, fvars, hvars, calls, visited, rvars,
                   profiles, evars, cleaned_emails, saved, svars>>

\* main.py lines 123-124
M_Clean ==
    /\ pc = "m_clean"
    /\ cleaned_emails' = clean_and_validate_emails(raw_emails, ignore_domains)
    /\ pc' = "m_emails"
    /\ UNCHANGED <<module, cfg, fvars, hvars, logged, calls, visited, rvars,
                   profiles, evars, raw_emails, saved, svars>>

\* main.py lines 127-138
M_SaveEmails ==
    /\ pc = "m_emails"
    /\ saved' = [saved EXCEPT !.emails = <<cleaned_emails>>]
    /\ pc' = "done"
    /\ UNCHANGED <<module, cfg, fvars, hvars, logged, calls, visited, rvars,
                   profiles, evars, raw_emails, cleaned_emails, svars>>

NextE ==
    \/ M_SaveProfiles \/ M_SaveLinks \/ M_SkipCheck \/ E_Start \/ E_BuildTries
    \/ E_Fetch \/ E_Fetched \/ E_EmitRow \/ E_Return \/ M_HarvestRaised
    \/ M_Clean \/ M_SaveEmails
    \/ RequestAttempt \/ BackoffSleep \/ RaiseExhausted

SpecE == InitE /\ [][NextE]_vars

\* ------------------------------------------- the helpers, called directly
\* One call of a helper function: args names the function and holds its
\* arguments, ret receives what it returns.
UnitCall(fn, m, u, n, html) == [fn |-> fn, module |-> m, u |-> u, n |-> n, html |-> html]

\* search URLs: without query, with a query, with a "?" inside the query,
\* with an empty query
SearchUrls == {SearchUrlPlain, SearchUrlQuery,
               SearchUrlQuery \o <<"?", "x">>, SearchUrlPlain \o <<"?">>}
BuildPagesCalls ==
    {UnitCall("build_pages", "link_extractor", u, n, PageEmpty) :
        u \in SearchUrls, n \in 1..MaxPages}

\* URLs to normalize: an origin, a path prefix, a company segment or
\* something else, and what follows it
Origins == {<<"https:", "//", "x", ".", "com">>,
            <<"http:", "//", "WWW", ".", "EUROPAGES", ".", "COM">>}
PathPrefixes == {<<>>, <<"/", "fr">>}
Slugs == {<<"a", "-", "1">>, <<"b", "-", "2", "0">>, <<"a", "-", "1", "-", "2">>,
          <<"c">>, <<"a", "-", "b">>, <<"a", "-", "1", "b">>, <<"-", "1">>}
PathTails == {<<>>, ProductsMarker \o <<"p">>, <<"?", "q">>,
              ProductsMarker \o <<"p", "-", "1">>}
ProfileLikeUrls ==
    {o \o pre \o CompanyMarker \o slug \o tail :
        o \in Origins, pre \in PathPrefixes, slug \in Slugs, tail \in PathTails}
    \cup {o \o <<"/", "en", "/", "about">> : o \in Origins} \cup {<<>>}
NormalizeCalls ==
    {UnitCall("normalize_to_profile_url", "link_extractor", u, 0, PageEmpty) :
        u \in ProfileLikeUrls}

\* documents to extract emails from: up to MaxAnchors pattern matches in
\* the text and up to MaxAnchors mailto anchors
MaxAnchors == 2
SeqsUpTo(S, n) == UNION {[1..len -> S] : len \in 0..n}
TextMatches == {EmOther, EmPlainUpper, EmPngFile}
MailtoHrefs == {<<"mailto:">> \o EmPlain \o <<"?", "s">>,
                <<"mailto:", " ">> \o EmIgnoredUpper, <<"mailto:", "?">>}
ExtractEmailsCalls ==
    {UnitCall("extract_emails_from_html", "email_scraper", <<>>, 0, MailPage(t, m)) :
        t \in SeqsUpTo(TextMatches, MaxAnchors), m \in SeqsUpTo(MailtoHrefs, MaxAnchors)}

\* result pages of directory A: product cards with their anchors, or
\* anchors outside any card
RelProd == <<"eu">> \o ProdA1
LinkPage(cards, loose) ==
    Page(cards, loose, "", None, "", <<>>, <<>>, <<>>, None, None)
Cards == {<<h>> : h \in {ProdA1, ProdB, CompanyOnly, <<>>, RelProd,
                         BaseUrlA \o ProdA2, <<" ">> \o ProdA2}}
         \cup {<<ProdA1, CompanyOnly>>}
ExtractLinksCalls ==
    {UnitCall("extract_product_links_from_page", "link_extractor", BaseUrlA, 0,
              LinkPage(c, <<ProdB>>)) : c \in SeqsUpTo(Cards, MaxAnchors) \ {<<>>}}
    \cup {UnitCall("extract_product_links_from_page", "link_extractor", BaseUrlA, 0,
                   LinkPage(<<>>, l)) : l \in {<<>>, <<ProdA1>>, <<RelProd, ProdB>>}}

\* the cleaner is called with the rows of raw_emails and ignore_domains
CleanCalls ==
    {UnitCall("clean_and_validate_emails", "data_cleaner", <<>>, 0, PageEmpty)}

UnitCalls == BuildPagesCalls \cup NormalizeCalls \cup ExtractEmailsCalls
             \cup ExtractLinksCalls \cup CleanCalls

InitU ==
    /\ args \in UnitCalls
    /\ module = args.module
    /\ cfg = Cfg(1, 2, args.n, args.u, "")
    /\ pc = "apply"
    /\ InitFetcherIdle /\ InitResolversIdle /\ profiles = <<>>
    /\ InitHarvesterIdle
    /\ IF args \in CleanCalls
       THEN raw_emails \in RawData /\ ignore_domains \in IgnoreSets
       ELSE raw_emails = <<>> /\ ignore_domains = {}
    /\ cleaned_emails = <<>> /\ saved = NoFiles /\ df = <<>> /\ step_in = <<>>

\* the function returns
Returns(fn, value) ==
    /\ pc = "apply" /\ args.fn = fn
    /\ ret' = value
    /\ pc' = "done"
    /\ UNCHANGED <<module, cfg, fpc, url, attempt, last_err, flog, hvars,
                   logged, calls, visited, avars>>

\* _build_pages(search_url, max_pages)
U_BuildPages == Returns("build_pages", build_pages(args.u, args.n))

\* _normalize_to_profile_url(product_or_profile_url, base_url)
U_Normalize ==
    Returns("normalize_to_profile_url", normalize_to_profile_url(args.u, BaseUrlA))

\* _extract_emails_from_html(html)
U_ExtractEmails ==
    Returns("extract_emails_from_html", extract_emails_from_html(args.html))

\* _extract_product_links_from_page(html, base_url, selectors)
U_ExtractLinks ==
    Returns("extract_product_links_from_page",
            extract_product_links_from_page(args.html, args.u))

\* clean_and_validate_emails(raw_data, ignore_domains)
U_Clean ==
    /\ pc = "apply" /\ args \in CleanCalls
    /\ cleaned_emails' = clean_and_validate_emails(raw_emails, ignore_domains)
    /\ pc' = "reapply"
    /\ UNCHANGED <<module, cfg, fvars, hvars, logged, calls, visited, rvars,
                   profiles, evars, raw_emails, saved, svars>>

\* clean_and_validate_emails(<its own output>, ignore_domains)
U_CleanAgain ==
    /\ pc = "reapply"
    /\ ret' = clean_and_validate_emails(cleaned_emails, ignore_domains)
    /\ pc' = "done"
    /\ UNCHANGED <<module, cfg, fpc, url, attempt, last_err, flog, hvars,
                   logged, calls, visited, avars>>

NextU ==
    \/ U_BuildPages \/ U_Normalize \/ U_ExtractEmails \/ U_ExtractLinks
    \/ U_Clean \/ U_CleanAgain

SpecU == InitU /\ [][NextU]_vars

\* ------------------------------------------------------------ history views
Gets(log) == SelectSeq(log, LAMBDA ev : ev.ev = "get")
BackoffSleeps(log) == SelectSeq(log, LAMBDA ev : ev.ev = "sleep")
Failed(m, ev) == AttemptFails(m, [exc |-> ev.exc, status |-> ev.status])

\* C1: with retries = R >= 1 and a remote that fails on the first k < R
\* attempts and then succeeds, exactly k+1 GETs are made, exactly k backoff
\* sleeps occur, the i-th sleep lasts backoff_factor^i and lies between GET i
\* and GET i+1, and the body of GET k+1 is what the call returns.
C1_RetrySuccess ==
    (fpc = "returned" /\ module # "yellowpages_extractor") =>
        LET k == Len(Gets(flog)) - 1 IN
        /\ k >= 0 /\ k < cfg.retries
        /\ Len(flog) = 2 * k + 1
        /\ Len(BackoffSleeps(flog)) = k
        /\ \A i \in 1..k :
             /\ flog[2 * i - 1].ev = "get" /\ flog[2 * i - 1].n = i
             /\ Failed(module, flog[2 * i - 1])
             /\ flog[2 * i] = SleepEv(i, Pow(cfg.backoff_factor, i))
        /\ flog[2 * k + 1].ev = "get" /\ flog[2 * k + 1].n = k + 1
        /\ ~Failed(module, flog[2 * k + 1])
        /\ ret.raised = FALSE
        /\ ret.body = flog[2 * k + 1].body

\* C1 witness: retries 3, factor 2, two failures, then success on GET 3
\* after sleeps of 2 and 4.
C1_Witness ==
    /\ fpc = "returned" /\ module = "link_extractor"
    /\ cfg.retries = 3 /\ cfg.backoff_factor = 2
    /\ Len(Gets(flog)) = 3
    /\ flog[2] = SleepEv(1, 2) /\ flog[4] = SleepEv(2, 4)
    /\ ret.body = PageTwo

\* C2: when every attempt fails, exactly `retries` GETs are made and never
\* more, exactly retries-1 backoff sleeps occur and none after the last
\* failed GET, and the call raises with the failure of the last attempt as
\* its cause; no body is returned.
C2_RetryExhaustion ==
    /\ Len(Gets(flog)) <= cfg.retries
    /\ (fpc \in {"exhausted", "raised"}) =>
         /\ Len(Gets(flog)) = cfg.retries
         /\ Len(BackoffSleeps(flog)) = cfg.retries - 1
         /\ flog[Len(flog)].ev = "get"
         /\ \A i \in 1..Len(flog) :
              flog[i].ev = "get" => Failed(module, flog[i])
    /\ fpc = "raised" =>
         /\ ret.raised
         /\ ret.cause = [attempt |-> cfg.retries,
                         exc |-> flog[Len(flog)].exc,
                         status |-> flog[Len(flog)].status]

\* C2 witness: three failing GETs of different kinds, then the raise.
C2_Witness ==
    /\ fpc = "raised" /\ cfg.retries = 3
    /\ flog[1].exc /\ flog[5].status = 503
    /\ ret.cause.status = 503

\* ------------------------------------------------- directory A resolver
Keys(map) == [n \in 1..Len(map) |-> map[n].profile]
NoDuplicates(sq) == \A a, b \in 1..Len(sq) : a # b => sq[a] # sq[b]

\* the profile URLs the pagination has discovered so far
Discovered ==
    {normalize_to_profile_url(seen[n], BaseUrlA) : n \in 1..Len(seen)} \ {<<>>}

\* the first product link met that normalizes to `profile`
FirstSeenFor(profile) ==
    seen[CHOOSE n \in 1..Len(seen) :
            /\ normalize_to_profile_url(seen[n], BaseUrlA) = profile
            /\ \A m \in 1..(n - 1) :
                  normalize_to_profile_url(seen[m], BaseUrlA) # profile]

\* C3: when the fetch of one search-result page fails after exhausting its
\* retries, the run does not abort: extract_profiles does not raise.
C3_SearchPageFailureDoesNotAbort ==
    (module = "link_extractor" /\ Count("search", FALSE) > 0) => pc # "raised"

\* C4: a profile whose page fetch fails is never skipped: every visited
\* profile has exactly one record carrying its profile_url, and on return
\* the number of records equals the number of unique profile URLs
\* discovered during pagination.
C4_EveryProfileEmitted ==
    /\ pc \in {"visit", "done"} => Len(profiles) = prof_i - 1
    /\ \A n \in 1..Len(profiles) :
          /\ profiles[n].profile_url = profile_to_sample_product[n].profile
          /\ \A m \in 1..Len(profiles) :
                profiles[m].profile_url = profiles[n].profile_url => m = n
    /\ pc = "done" => Len(profiles) = Cardinality(Discovered)

\* C4 witness: the profile fetch and the fallback product fetch both failed
\* and the record was emitted with all fields empty.
C4_Witness ==
    /\ pc = "visit" /\ prof_i = 2
    /\ ~visit.profile_ok /\ visit.fallback /\ ~visit.fallback_ok
    /\ profiles[1].company_name = "" /\ profiles[1].country = ""
    /\ profiles[1].website_url = <<>>
    /\ profiles[1].profile_url = profile_to_sample_product[1].profile

\* C5: the dict holds, for each profile URL, the first product URL that
\* normalized to it, its keys being in first-discovery order; each profile
\* URL is fetched as a profile page at most once; the records have pairwise
\* distinct profile_url values in the insertion order of the dict.
C5_FirstProductKept ==
    /\ NoDuplicates(Keys(profile_to_sample_product))
    /\ {profile_to_sample_product[n].profile :
            n \in 1..Len(profile_to_sample_product)} = Discovered
    /\ \A n \in 1..Len(profile_to_sample_product) :
          profile_to_sample_product[n].product =
              FirstSeenFor(profile_to_sample_product[n].profile)
    /\ NoDuplicates(visited)
    /\ \A n \in 1..Len(visited) :
          visited[n] = profile_to_sample_product[n].profile
    /\ NoDuplicates([n \in 1..Len(profiles) |-> profiles[n].profile_url])
    /\ \A n \in 1..Len(profiles) :
          profiles[n].profile_url = profile_to_sample_product[n].profile

\* C5 witness: two product links of one profile were met, the dict kept the
\* first, and both profiles were emitted.
C5_Witness ==
    /\ pc = "done" /\ Len(profiles) = 2
    /\ \E n \in 1..Len(profile_to_sample_product), m \in 1..Len(seen) :
          /\ normalize_to_profile_url(seen[m], BaseUrlA)
                = profile_to_sample_product[n].profile
          /\ seen[m] # profile_to_sample_product[n].product

\* lower-casing of the host labels that occur in the pages
LowerLabel(t) ==
    CASE t = "EUROPAGES" -> "europages"
      [] t = "WWW" -> "www"
      [] t = "COM" -> "com"
      [] OTHER -> t

\* the host of the URL is the directory's own, or below it (host names are
\* case-insensitive)
HostOnDirectory(site) ==
    LET host == urlparse(site).netloc
    IN Contains([n \in 1..Len(host) |-> LowerLabel(host[n])], DirectoryMark)

\* C6: when the website extracted from the profile page is empty or hosted
\* on the directory's own domain, and a sample product URL exists, the
\* sample product page is fetched as a substitute source.
C6_DirectoryWebsiteTriggersFallback ==
    pc = "emit" =>
        (((website = <<>> \/ HostOnDirectory(website))
          /\ profile_to_sample_product[prof_i].product # <<>>)
            => visit.fallback)

\* C7: in every emitted record the website_url is empty or a URL whose host
\* is not on the directory's own domain.
C7_NoDirectoryWebsiteEmitted ==
    \A n \in 1..Len(profiles) :
        \/ profiles[n].website_url = <<>>
        \/ ~HostOnDirectory(profiles[n].website_url)

\* ------------------------------------------------- directory B resolver
\* the invocation cannot run: the sector key or the category is missing
ConfigError ==
    \/ args.entry = "main" /\ (~args.sector_known \/ args.category = "")
    \/ args.entry = "call" /\ cfg.category = ""

PageCalls == Count("page", TRUE) + Count("page", FALSE)
RecordUrls == [n \in 1..Len(all_businesses) |-> all_businesses[n].profile_url]

\* C8: a fetch failure never aborts the run: after a search page that
\* exhausted its retries the remaining search pages are still fetched, after
\* a profile page that exhausted its retries the remaining profiles are
\* still visited, and the records of all other profiles are returned.
C8_FetchFailureNeverAborts ==
    /\ pc # "raised"
    /\ pc \in {"paginate", "page_wait"} => PageCalls = page_num - 1
    /\ pc = "visit" => Count("profile", TRUE) + Count("profile", FALSE) = prof_i - 1
    /\ (pc \in {"visit", "done"} /\ ~ConfigError) => PageCalls = cfg.max_pages
    /\ (pc = "done" /\ ~ConfigError) =>
          /\ Len(visited) = Cardinality(profile_urls)
          /\ {visited[n] : n \in 1..Len(visited)} = profile_urls
          /\ RecordUrls = named
    /\ Count("page", FALSE) > 0 => <<"error", "search page failed">> \in logged
    /\ Count("profile", FALSE) > 0 =>
          <<"error", "failed to scrape profile page">> \in logged

\* C8 witness: a search page and a profile page both exhausted their
\* retries, and the run still returned the record of another profile.
C8_Witness ==
    /\ pc = "done"
    /\ Count("page", FALSE) > 0 /\ Count("profile", FALSE) > 0
    /\ Len(all_businesses) > 0

\* C9: a profile whose page yields no company name is dropped with a
\* warning and the run goes on; every record has a non-empty company_name,
\* and the records are in the sorted order of their profile URLs, none
\* repeated.
C9_NamelessProfilesDropped ==
    /\ \A n \in 1..Len(all_businesses) :
          all_businesses[n].company_name \notin {"", None}
    /\ \A a, b \in 1..Len(all_businesses) :
          a < b => StrLess(all_businesses[a].profile_url,
                           all_businesses[b].profile_url)
    /\ RecordUrls = named
    /\ Count("profile", TRUE) > Len(named) =>
          <<"warning", "could not extract company name">> \in logged
    /\ pc = "done" /\ ~ConfigError => Len(visited) = Cardinality(profile_urls)

\* C9 witness: the first profile in sorted order had no company name and
\* was dropped, the second one was emitted.
C9_Witness ==
    /\ pc = "done" /\ Len(visited) = 2 /\ Count("profile", TRUE) = 2
    /\ Len(all_businesses) = 1
    /\ all_businesses[1].profile_url = visited[2]
    /\ StrLess(visited[1], visited[2])

\* C10: when the category is missing for directory B, or the sector key is
\* missing from the configuration, the invocation logs an error and ends
\* with no profile records, without raising and without any network
\* request or politeness sleep.
C10_ConfigErrorEndsCleanly ==
    (ConfigError /\ pc \notin {"main", "start"}) =>
        /\ pc = "done"
        /\ \E m \in logged : m[1] = "error"
        /\ all_businesses = <<>>
        /\ fetches = 0 /\ sleeps = 0 /\ fpc = "idle"

\* C10 witness: extract_profiles was called without a category and has
\* returned.
C10_Witness ==
    /\ pc = "done" /\ args.entry = "call" /\ cfg.category = ""
    /\ <<"error", "category not provided">> \in logged

\* ------------------------------------------------------------- sanitizer
\* the domain of an email: the text after its last "@", lower-cased
EmailDomain(email) == Lower(AfterLast(email, "@"))
\* the top-level label: the text after the last "." of the domain
TopLevelLabel(email) == AfterLast(EmailDomain(email), ".")
HasImageSubstring(email) == \E pat \in ImagePatterns : Contains(email, pat)
CleanerReturned == module = "data_cleaner" /\ pc = "done"

\* C17: whatever the input rows and the ignore set, the output of
\* clean_and_validate_emails has no two records with the same email, and
\* every output email is non-blank, has a domain outside the ignore set,
\* contains no image-asset substring, and has a top-level label that is
\* alphabetic, digit-free and at least two characters long.
C17_SanitizerOutputInvariant ==
    CleanerReturned =>
        /\ \A a, b \in 1..Len(cleaned_emails) :
              a # b => cleaned_emails[a].email # cleaned_emails[b].email
        /\ \A k \in 1..Len(cleaned_emails) :
              LET e == cleaned_emails[k].email
                  label == TopLevelLabel(e)
              IN /\ e # EmNone
                 /\ \E c \in 1..Len(e) : e[c] \notin Whitespace
                 /\ EmailDomain(e) \notin ignore_domains
                 /\ ~HasImageSubstring(e)
                 /\ Len(label) >= 2
                 /\ \A c \in 1..Len(label) :
                       label[c] \in Alphabetic /\ label[c] \notin {"0", "1", "2"}

\* C17 witness: an ignored domain in upper case, a digit in the top-level
\* label and a valid address went in; only the valid one came out.
C17_Witness ==
    /\ CleanerReturned /\ Len(raw_emails) = 3
    /\ raw_emails[1].email = EmIgnoredUpper /\ raw_emails[2].email = EmDigitTld
    /\ raw_emails[3].email = EmPlain
    /\ ignore_domains = {IgnoredDomain}
    /\ Len(cleaned_emails) = 1 /\ cleaned_emails[1].email = EmPlain

\* C18: deduplication keeps, for each email that survived the filters, the
\* earliest surviving record with its name (as company_name) and country,
\* and the output is a subsequence of the input in the input's order.
C18_DedupKeepsFirst ==
    (CleanerReturned /\ raw_emails # <<>>) =>
        /\ \A k \in 1..Len(cleaned_emails) :
              LET n == cleaned_emails[k].company_name
              IN /\ n \in 1..Len(raw_emails)
                 /\ raw_emails[n].email = cleaned_emails[k].email
                 /\ raw_emails[n].country = cleaned_emails[k].country
                 /\ \A m \in 1..Len(step_in) :
                       step_in[m].email = cleaned_emails[k].email
                           => step_in[m].name >= n
        /\ \A a, b \in 1..Len(cleaned_emails) :
              a < b => cleaned_emails[a].company_name < cleaned_emails[b].company_name
        /\ \A m \in 1..Len(step_in) :
              Cardinality({k \in 1..Len(cleaned_emails) :
                              cleaned_emails[k].email = step_in[m].email}) = 1

\* C18 witness: the first and the third row carry the same email; the first
\* and the second row are returned.
C18_Witness ==
    /\ CleanerReturned /\ Len(raw_emails) = 3
    /\ raw_emails[1].email = EmPlain /\ raw_emails[2].email = EmOther
    /\ raw_emails[3].email = EmPlain
    /\ Len(cleaned_emails) = 2
    /\ cleaned_emails[1].company_name = 1 /\ cleaned_emails[2].company_name = 2

\* C19: the image-asset step removes exactly the rows whose email contains
\* one of the fixed substrings literally; a row without any of them passes.
C19_ImageStepDropsLiteralsOnly ==
    (module = "data_cleaner" /\ pc = "s_tld") =>
        df = SelectSeq(step_in, LAMBDA r : ~HasImageSubstring(r.email))

\* ---------------------------------------------------------------- pacing
\* C15: in both resolvers every search-page fetch, failed ones included, is
\* followed by a politeness sleep before the next search page is requested:
\* a search-page request in flight is the only Fetcher call since the last
\* politeness sleep.
C15_PaginationPaced ==
    (module \in {"link_extractor", "yellowpages_extractor"} /\ pc = "page_wait")
        => unpaced = 1

\* C16: in the profile-visit phase every Fetcher call for a profile page or
\* a fallback product page is followed by a politeness sleep before the next
\* Fetcher call: a fallback request, or a profile request after the first,
\* is the only Fetcher call since the last politeness sleep.
C16_VisitPhasePaced ==
    (module \in {"link_extractor", "yellowpages_extractor"}
       /\ (pc = "fallback_wait" \/ (pc = "profile_wait" /\ prof_i > 1)))
        => unpaced = 1

\* -------------------------------------------------------- email harvester
Harvesting == module = "email_scraper"
HarvestReturned ==
    /\ Harvesting /\ pc \in {"m_clean", "m_emails", "done"}
    /\ email_cfg.valid /\ ~args.skip_emails
Smaller(a, b) == IF a < b THEN a ELSE b

\* the candidate pages the harvester is to try for one profile
ExpectedCandidates(row) ==
    IF row.website_url # <<>>
    THEN LET site == normalize_url(row.website_url)
             n == Smaller(email_cfg.max_pages_per_site - 1, Len(email_cfg.crawl_paths))
         IN <<site>> \o [k \in 1..n |-> urljoin(site, email_cfg.crawl_paths[k])]
    ELSE <<row.profile_url>>
TriedUrls == [k \in 1..Len(tried) |-> tried[k].url]

\* C11: with max_pages_per_site = M >= 1, the candidates of a profile with a
\* website are the normalized website followed by the first
\* min(M-1, number of crawl paths) crawl paths resolved against it, in
\* configured order; a profile without website has its profile URL as only
\* candidate; at most M Fetcher calls are made for one profile.
C11_CandidateList ==
    /\ (Harvesting /\ pc \in {"candidates", "cand_wait"}) =>
          LET expected == ExpectedCandidates(profiles[row_i])
              inflight == IF pc = "cand_wait" THEN 1 ELSE 0
          IN /\ Len(tried) + inflight <= Len(expected)
             /\ Len(tried) + inflight <= email_cfg.max_pages_per_site
             /\ TriedUrls = SubSeq(expected, 1, Len(tried))
             /\ pc = "cand_wait" => url = expected[Len(tried) + 1]
    /\ (Harvesting /\ pc = "row" /\ row_i > 1) =>
          /\ TriedUrls = ExpectedCandidates(profiles[row_i - 1])
          /\ Len(tried) <= email_cfg.max_pages_per_site

\* C11 witness: M = 2 and three crawl paths: the website given without
\* scheme was tried as https://acme.com/shop, then https://acme.com/ .
C11_Witness ==
    /\ Harvesting /\ pc = "row" /\ row_i = 2
    /\ profiles[1] = RowAcme
    /\ email_cfg.max_pages_per_site = 2 /\ Len(email_cfg.crawl_paths) = 3
    /\ TriedUrls = << <<"https:", "//", "acme", ".", "com", "/", "shop">>,
                      <<"https:", "//", "acme", ".", "com", "/">> >>

\* C12: every candidate page of a profile is attempted, whether or not an
\* earlier one failed, the following profiles are processed too, and the
\* emails of a profile are the union of the emails extracted from the
\* candidates that were fetched successfully.
C12_CandidateFailureIsolated ==
    /\ (Harvesting /\ pc = "row" /\ row_i > 1) =>
          /\ Len(tried) = Len(ExpectedCandidates(profiles[row_i - 1]))
          /\ found[row_i - 1] =
                UNION {tried[k].emails : k \in {n \in 1..Len(tried) : tried[n].ok}}
    /\ HarvestReturned => Len(found) = Len(profiles)

\* C12 witness: the first candidate of the second profile failed, the
\* second candidate was fetched and gave the emails of the profile.
C12_Witness ==
    /\ Harvesting /\ pc = "row" /\ row_i = 3
    /\ Len(tried) = 2 /\ ~tried[1].ok /\ tried[2].ok
    /\ tried[2].emails # {} /\ found[2] = tried[2].emails

\* C13: the result has one record per profile and distinct email found for
\* it; the records of the profiles follow each other in input order, those
\* of one profile are contiguous and sorted by email; a profile without
\* email contributes no record.
C13_HarvestOutput ==
    HarvestReturned =>
        LET before[k \in 0..Len(found)] ==
                IF k = 0 THEN 0 ELSE before[k - 1] + Cardinality(found[k])
        IN /\ Len(found) = Len(profiles)
           /\ Len(raw_emails) = before[Len(found)]
           /\ \A k \in 1..Len(found) : \A r \in 1..Cardinality(found[k]) :
                 LET rec == raw_emails[before[k - 1] + r]
                 IN /\ rec.name = Strip(profiles[k].company_name)
                    /\ rec.country = Strip(profiles[k].country)
                    /\ rec.email \in found[k]
                    /\ r > 1 => StrLess(raw_emails[before[k - 1] + r - 1].email,
                                        rec.email)

\* C13 witness: no email for the first profile, three for the second.
C13_Witness ==
    /\ HarvestReturned /\ Len(profiles) = 2
    /\ found[1] = {} /\ Cardinality(found[2]) = 3
    /\ Len(raw_emails) = 3 /\ raw_emails[1].email = EmPlain
    /\ <<"info", "no emails found">> \in logged

\* C14: every Fetcher call for a candidate page, returned or raised, is
\* followed by exactly one politeness sleep before the next candidate is
\* fetched; the politeness sleeps are as many as the candidates attempted.
C14_HarvesterPaced ==
    Harvesting =>
        IF pc = "cand_wait"
        THEN unpaced = 1 /\ sleeps = fetches - 1
        ELSE unpaced = 0 /\ sleeps = fetches

\* C14 witness: three candidate pages were attempted, one at least failed.
C14_Witness ==
    /\ HarvestReturned /\ pc = "done"
    /\ fetches = 3 /\ sleeps = 3
    /\ <<"debug", "failed fetch">> \in logged

\* ----------------------------------------------------------- orchestration
EmailStageFailed == <<"error", "email scraping failed">> \in logged

\* C20: an email stage that raises is caught in main: the run goes on with
\* no raw and no clean email record; the profile and link files were
\* written before the email stage started and stay as written; with
\* skip-emails no email-stage fetch is issued.
C20_EmailStageDegrades ==
    Harvesting =>
        /\ pc \notin {"m_profiles", "m_links"} =>
              /\ saved.profiles = <<profiles>>
              /\ saved.links = <<PersonalSites(profiles)>>
        /\ args.skip_emails =>
              /\ fetches = 0 /\ fpc = "idle"
              /\ pc \in {"m_profiles", "m_links", "m_skip", "done"}
        /\ pc = "harvest_raised" => fetches = 0
        /\ (EmailStageFailed /\ pc \in {"m_clean", "m_emails", "done"}) =>
              raw_emails = <<>>
        /\ (EmailStageFailed /\ pc \in {"m_emails", "done"}) => cleaned_emails = <<>>
        /\ (pc = "done" /\ ~args.skip_emails) =>
              /\ saved.emails = <<cleaned_emails>>
              /\ ~email_cfg.valid => EmailStageFailed

\* C20 witness: the email stage raised; the run ended with the profile and
\* link files written and an empty email file.
C20_Witness ==
    /\ Harvesting /\ pc = "done" /\ ~args.skip_emails /\ ~email_cfg.valid
    /\ Len(profiles) = 2 /\ EmailStageFailed
    /\ saved.profiles = <<profiles>> /\ Len(saved.links[1]) > 0
    /\ saved.emails = << <<>> >>

\* --------------------------------------------------------- pure helpers
Called(fn) == pc = "done" /\ args.fn = fn
PageSegment(n) == <<"/", "page", "/", ToString(n)>>

\* C21: for max_pages = N >= 1, _build_pages returns exactly N URLs; the
\* first is the search URL unmodified; the i-th (2 <= i <= N) is the search
\* URL with a /page/i segment appended to its path, before the "?" if there
\* is a query string, the query string being the same on every page.
C21_PaginationBuilder ==
    Called("build_pages") =>
        /\ Len(ret) = args.n
        /\ ret[1] = args.u
        /\ \A n \in 2..args.n :
              /\ urlparse(ret[n]).scheme = urlparse(args.u).scheme
              /\ urlparse(ret[n]).netloc = urlparse(args.u).netloc
              /\ urlparse(ret[n]).path = urlparse(args.u).path \o PageSegment(n)
              /\ urlparse(ret[n]).query = urlparse(args.u).query
              /\ Contains(args.u, <<"?">>) <=> Contains(ret[n], <<"?">>)
              /\ Len(ret[n]) = Len(args.u) + Len(PageSegment(n))

\* C21 witness: a search URL with a query string and two pages.
C21_Witness ==
    /\ Called("build_pages") /\ args.u = SearchUrlQuery /\ args.n = 2
    /\ ret[2] = SearchUrlPlain \o <<"/", "page", "/", "2", "?", "q", "=", "wine">>

\* the path has /en/company/ followed by a segment in which a "-" that is
\* not its first character is followed by a digit
HasCompanySegment(u) ==
    LET path == urlparse(u).path
    IN \E k \in 0..(Len(path) - Len(CompanyMarker)) :
          /\ SubSeq(path, k + 1, k + Len(CompanyMarker)) = CompanyMarker
          /\ LET seg == SegmentAt(path, k + Len(CompanyMarker) + 1)
             IN \E d \in 2..(Len(seg) - 1) : seg[d] = "-" /\ seg[d + 1] \in Digits

\* C22: when _normalize_to_profile_url returns p for a URL, normalizing p
\* again returns p; p is the scheme and host of the URL followed by the
\* /en/company/<slug>-<numeric-id> segment and nothing else; a URL without
\* such a segment yields None.
C22_NormalizeIdempotent ==
    Called("normalize_to_profile_url") =>
        IF HasCompanySegment(args.u)
        THEN LET p == urlparse(ret)
                 seg == SubSeq(p.path, Len(CompanyMarker) + 1, Len(p.path))
             IN /\ ret # <<>>
                /\ normalize_to_profile_url(ret, BaseUrlA) = ret
                /\ p.scheme = urlparse(args.u).scheme
                /\ p.netloc = urlparse(args.u).netloc
                /\ p.query = <<>>
                /\ SubSeq(p.path, 1, Len(CompanyMarker)) = CompanyMarker
                /\ Len(seg) >= 3 /\ seg[Len(seg)] \in Digits
                /\ \A k \in 1..Len(seg) : seg[k] # "/"
                /\ \E d \in 2..(Len(seg) - 1) :
                      seg[d] = "-" /\ \A e \in (d + 1)..Len(seg) : seg[e] \in Digits
                /\ Contains(urlparse(args.u).path, p.path)
        ELSE ret = <<>>

\* C22 witness: a product URL under a path prefix, with a product path.
C22_Witness ==
    /\ Called("normalize_to_profile_url")
    /\ args.u = <<"https:", "//", "x", ".", "com", "/", "fr">> \o CompanyMarker
                    \o <<"b", "-", "2", "0">> \o ProductsMarker \o <<"p", "-", "1">>
    /\ ret = <<"https:", "//", "x", ".", "com">> \o CompanyMarker \o <<"b", "-", "2", "0">>

\* the address part of a mailto: href: what follows "mailto:", up to but
\* excluding a query string
AddressPart(href) ==
    LET rest == Tail(href) IN SubSeq(rest, 1, FirstIn(rest, {"?"}) - 1)

\* C23: email extraction returns the set of the pattern-matched addresses
\* of the text and of the address parts of the mailto: hrefs, each
\* lower-cased and trimmed; asset-like tokens that match the pattern are
\* kept.
C23_EmailExtraction ==
    Called("extract_emails_from_html") =>
        /\ ret = {Lower(Strip(args.html.text[k])) : k \in 1..Len(args.html.text)}
                 \cup {Lower(Strip(AddressPart(args.html.mailto[k]))) :
                          k \in {n \in 1..Len(args.html.mailto) :
                                    AddressPart(args.html.mailto[n]) # <<>>}}
        /\ (\E k \in 1..Len(args.html.text) : args.html.text[k] = EmPngFile)
              => EmPngFile \in ret

\* C23 witness: an asset-like token and an address in upper case in the
\* text, the same address in a mailto: href with a query string.
C23_Witness ==
    /\ Called("extract_emails_from_html")
    /\ args.html.text = <<EmPngFile, EmPlainUpper>>
    /\ args.html.mailto = << <<"mailto:">> \o EmPlain \o <<"?", "s">>, <<"mailto:", "?">> >>
    /\ ret = {EmPngFile, EmPlain}

\* the absolute URL an href stands for on a page of base_url
AbsoluteUrlOf(base_url, href) ==
    IF urlparse(href).scheme # "" THEN href
    ELSE IF StartsWithSlash(href) THEN urljoin(base_url, href)
    ELSE base_url \o <<"/">> \o href
IsAbsoluteUrl(u) == urlparse(u).scheme \in Schemes /\ urlparse(u).netloc # <<>>

\* C24: when the page has product cards, the result is the set of the
\* absolute URLs of the card anchors whose resolved URL contains both the
\* company-path and the products-path marker; a company-only anchor is
\* excluded and every returned URL is absolute.
C24_ProductLinkExtraction ==
    (Called("extract_product_links_from_page") /\ args.html.cards # <<>>) =>
        LET anchors == Flatten(args.html.cards)
            resolved == {AbsoluteUrlOf(args.u, Strip(anchors[k])) :
                            k \in {n \in 1..Len(anchors) : Strip(anchors[n]) # <<>>}}
        IN /\ ret = {r \in resolved : Contains(r, CompanyMarker)
                                        /\ Contains(r, ProductsMarker)}
           /\ \A r \in ret : IsAbsoluteUrl(r)
           /\ args.u \o CompanyOnly \notin ret

\* the status policy of the module's Fetcher variant, as stated: directory A
\* and the Email Harvester accept every response below 500, directory B
\* accepts 2xx responses only
AcceptedByPolicy(m, e) ==
    /\ ~e.exc
    /\ IF m = "yellowpages_extractor" THEN e.status \in 200..299
       ELSE e.status < 500

\* C25: a GET whose response the variant's policy accepts ends the retry
\* loop at once and its body is returned; every other GET (an exception, a
\* status >= 500, and in directory B every non-2xx status) is a failure:
\* the call does not return on it, it is retried while attempts remain
\* and raised once they are exhausted.
C25_StatusPolicy ==
    /\ \A k \in 1..Len(flog) : flog[k].ev = "get" =>
          IF AcceptedByPolicy(module, flog[k])
          THEN /\ k = Len(flog)
               /\ fpc = "returned"
               /\ ret = [raised |-> FALSE, body |-> flog[k].body, cause |-> None]
          ELSE /\ k = Len(flog) => fpc \in {"backoff", "exhausted", "raised"}
               /\ (k = Len(flog) /\ fpc = "backoff") => flog[k].n < cfg.retries
               /\ (k = Len(flog) /\ fpc \in {"exhausted", "raised"})
                     => flog[k].n = cfg.retries
    /\ fpc = "raised" => ret.raised

\* the emails extracted from the candidate pages of the current profile
PageEmails == UNION {tried[k].emails : k \in 1..Len(tried)}

\* the records a step appends to the results
Emitted == SubSeq(results', Len(results) + 1, Len(results'))

\* C26: the emails accumulated for a profile start empty and hold only
\* emails extracted from candidate pages of that profile; the records
\* emitted for the profile carry its name and country and exactly those
\* emails, and the records of earlier profiles are left as they are.
C26_Attribution ==
    /\ [](Harvesting => emails_found = PageEmails)
    /\ [][(pc = "candidates" /\ pc' = "row") =>
            /\ Len(results') >= Len(results)
            /\ SubSeq(results', 1, Len(results)) = results
            /\ {Emitted[k].email : k \in 1..Len(Emitted)} = PageEmails
            /\ \A k \in 1..Len(Emitted) :
                  /\ Emitted[k].name = Strip(profiles[row_i].company_name)
                  /\ Emitted[k].country = Strip(profiles[row_i].country)]_vars

\* C26 witness: two profiles were harvested, their pages gave different
\* emails, and each profile has its own records only.
C26_Witness ==
    /\ pc = "row" /\ row_i = 3
    /\ found[1] # {} /\ found[2] # {} /\ found[1] \cap found[2] = {}
    /\ Len(results) = Cardinality(found[1]) + Cardinality(found[2])
    /\ \A k \in 1..Len(results) :
          results[k].name = Strip(profiles[IF k <= Cardinality(found[1]) THEN 1 ELSE 2].company_name)

\* C27: applying clean_and_validate_emails with the same ignore set to its
\* own output returns that output unchanged, same records in the same
\* order; an empty input yields an empty output.
C27_SanitizerIdempotent ==
    /\ Called("clean_and_validate_emails") => ret = cleaned_emails
    /\ (module = "data_cleaner" /\ pc \in {"reapply", "done"} /\ raw_emails = <<>>)
          => cleaned_emails = <<>>

\* C27 witness: rows were dropped in the first application, two records
\* came out, and the second application returned the same two records.
C27_Witness ==
    /\ Called("clean_and_validate_emails")
    /\ Len(raw_emails) = 3 /\ Len(cleaned_emails) = 2
    /\ cleaned_emails[1].email # cleaned_emails[2].email
    /\ ret = cleaned_emails

====
